---- MODULE Spec2Model ----
(***************************************************************************)
(* A model of the polling replication engine of Backup-Data:               *)
(*   CdcService        (src/unnamed/part_004): the 30-second detection     *)
(*                     cycle, syncTableChanges, upsertRecords/processBatch *)
(*                     and forceSyncTable;                                 *)
(*   BackupService     (src/src/backup/backup.service.ts): hourly and      *)
(*                     daily full backups, backupTable, getBackupStatus;   *)
(*   MonitoringService (src/unnamed/part_006): collectMetrics and the      *)
(*                     scheduled health check and report;                  *)
(*   the controllers that expose them.                                     *)
(*                                                                         *)
(* Every async function is a process whose position (pc) advances at its   *)
(* awaits; code between two awaits runs as one step, as on the Node.js     *)
(* event loop.  A database round trip that can reject is a step with a     *)
(* failing outcome, paid from the fault budget `faults`.                   *)
(*                                                                         *)
(* A row is [id, ts]: its primary-key value and its updateat value.  A     *)
(* table's content is a bag of rows (a table without a primary key can     *)
(* hold the same row twice).                                               *)
(***************************************************************************)
EXTENDS Integers, Sequences, FiniteSets, Bags, TLC

VARIABLES
  isMonitoring,  \* CdcService.isMonitoring
  primary,       \* primary database: [table -> [exists, col, pk, rows]]
  target,        \* backup database:  [table -> [exists, pk, rows]]
  cyc,           \* runs of monitorChanges: [slot -> [pc, tables, i]]
  sync,          \* runs of syncTableChanges, per cycle slot and table, and
                 \* of forceSyncTable (slot 0), per table
  bk,            \* the run of a full or a manual backup
  healthMetrics, \* MonitoringService.healthMetrics
  ledger,        \* backup_info.backup_status in the backup database
  reply,         \* data of the last answer of GET /monitoring/metrics
  sql,           \* the last call of processBatch and the statements it built
  ddl,           \* the last creation of a target table and the steps it ran
  bind,          \* the last value coerced for binding, by either routine
  status,        \* the last call of getBackupStatus: its runner and its answer
  faults,        \* database failures still to be injected
  ticks,         \* scheduler ticks and requests still to come (negative:
                 \* the 30-second timer never stops)
  lastRead,      \* per table, the watermark the latest detection cycle read
  outcome        \* per entry point, how its latest run ended

vars == <<isMonitoring, primary, target, cyc, sync, bk, healthMetrics, ledger, reply, sql,
         ddl, bind, status, faults, ticks, lastRead, outcome>>

----------------------------------------------------------------------------
(* Bounds of the model *)

NumTables == 4
MaxCycles == 2
MaxFaults == 1
MaxTicks == 2
OverlapTables == 2
TableRows == 3
PageRows == 101
FullTables == 2
BackupFaults == 2
MaxCount == 40
BatchRecords == 2
MaxChars == 4

(* Constants of the program *)

concurrencyLimit == 3
PageLimit == 100
ForceLimit == 1000
MantissaBits == 53

Tables == 1..NumTables
Slots == 1..MaxCycles
ForceSlot == 0

EntryPoints ==
  {"monitorChanges", "performScheduledBackup", "performDailyFullBackup",
   "performHealthCheck", "generateDailyReport", "triggerManualBackup",
   "forceSyncTable", "getHealth", "getHealthStatus", "getBackupStatus"}

----------------------------------------------------------------------------
(* Rows, tables and the SQL statements the engine issues *)

Row(i, n) == [id |-> i, ts |-> n]

Min(a, b) == IF a < b THEN a ELSE b

\* COALESCE(MAX(updateat), 0)
MaxTs(S) ==
  IF S = {} THEN 0
  ELSE CHOOSE m \in {r.ts : r \in S} : \A r \in S : r.ts <= m

\* SELECT COALESCE(MAX(updateat), 0) FROM "<table>"
Watermark(T) == MaxTs(BagToSet(T))

\* WHERE updateat > $1
Changed(P, w) == {r \in P : r.ts > w}

Below(Q, b) == {r \in Q : r.ts < b}
At(Q, b) == {r \in Q : r.ts = b}

\* The updateat value at which ORDER BY updateat LIMIT lim cuts Q.
BoundaryTs(Q, lim) ==
  CHOOSE b \in {r.ts : r \in Q} :
    /\ Cardinality(Below(Q, b)) < lim
    /\ Cardinality(Below(Q, b)) + Cardinality(At(Q, b)) >= lim

\* ORDER BY updateat LIMIT lim: every row set the statement can return.  Rows
\* of equal updateat come in an order the database chooses, so when the limit
\* cuts a group of equal updateat any part of the group of the right size can
\* be returned.
Pages(Q, lim) ==
  IF Cardinality(Q) <= lim THEN {Q}
  ELSE LET b == BoundaryTs(Q, lim)
           need == lim - Cardinality(Below(Q, b))
       IN {Below(Q, b) \cup B : B \in {X \in SUBSET At(Q, b) : Cardinality(X) = need}}

\* The rows of S that ORDER BY updateat may deliver first.
First(S) == {r \in S : \A q \in S : r.ts <= q.ts}

SameId(T, r) == {x \in BagToSet(T) : x.id = r.id}

\* INSERT ... ON CONFLICT (pk) DO UPDATE SET <non-pk> = EXCLUDED.<non-pk>
UpsertPk(T, r) ==
  LET keep == BagToSet(T) \ SameId(T, r)
  IN [x \in keep \cup {r} |-> IF x = r THEN 1 ELSE T[x]]

\* INSERT ... ON CONFLICT DO NOTHING: a row whose key is taken is skipped; a
\* table without a primary key has no conflict to find and takes the row.
InsertIgnore(T, hasPk, r) ==
  IF hasPk /\ SameId(T, r) # {} THEN T ELSE T (+) SetToBag({r})

\* The statement processBatch builds for one row, run against table T.
\* usePk: getPrimaryKeyColumns returned the key.  ON CONFLICT (pk) against a
\* table that has lost its key constraint is rejected by the database.
StatementOk(hasPk, usePk) == usePk => hasPk

ProcessRow(T, hasPk, usePk, r) ==
  IF usePk THEN UpsertPk(T, r) ELSE InsertIgnore(T, hasPk, r)

----------------------------------------------------------------------------
(* Fault injection: a database round trip rejects *)

Fault == faults > 0 /\ faults' = faults - 1
NoFault == UNCHANGED faults

----------------------------------------------------------------------------
(* CdcService.syncTableChanges *)

IdleSync ==
  [pc |-> "idle", lastSync |-> 0, page |-> {}, todo |-> {}, usePk |-> FALSE,
   pR |-> "none", bR |-> "none", failed |-> FALSE, threw |-> FALSE, wrote |-> 0,
   errs |-> 0]

\* createQueryRunner() twice, then the run waits in primaryRunner.connect()
StartedSync == [IdleSync EXCEPT !.pc = "connect", !.pR = "created", !.bR = "created"]

SetSync(c, t, r) == sync' = [sync EXCEPT ![c][t] = r]

\* What no step of a table sync touches.
SyncFrame == UNCHANGED <<isMonitoring, primary, cyc, bk, healthMetrics, ledger, reply, sql, ddl, bind, status, ticks>>

Released(st) == IF st = "connected" THEN "released" ELSE st

\* await primaryRunner.connect(); await backupRunner.connect();
SyncConnect(c, t) ==
  LET s == sync[c][t] IN
  /\ s.pc = "connect"
  /\ \/ /\ NoFault
        /\ SetSync(c, t, [s EXCEPT !.pc = "check", !.pR = "connected", !.bR = "connected"])
     \/ /\ Fault    \* primaryRunner.connect() rejects
        /\ SetSync(c, t, [s EXCEPT !.pc = "relP", !.failed = TRUE])
     \/ /\ Fault    \* backupRunner.connect() rejects
        /\ SetSync(c, t, [s EXCEPT !.pc = "relP", !.pR = "connected", !.failed = TRUE])
  /\ UNCHANGED <<target, lastRead, outcome>>
  /\ SyncFrame

\* A schema step that fills the table it creates.
HandleMissingBackupTableCopies(t, how) ==
  [exists |-> TRUE, pk |-> primary[t].pk, rows |-> SetToBag(primary[t].rows)]

\* handleMissingBackupTable: the table it leaves in the target.
\*   "created":     CREATE TABLE and ALTER TABLE ... ADD PRIMARY KEY succeed
\*   "createdNoPk": the table is created by createTableWithFallback, or the
\*                  ALTER TABLE is rejected: the table stays without its key
\*   "none":        every statement is rejected; the error is logged
HandleMissingBackupTable(t, how) ==
  CASE how = "created" ->
         [exists |-> TRUE, pk |-> primary[t].pk, rows |-> EmptyBag]
    [] how = "createdNoPk" ->
         [exists |-> TRUE, pk |-> FALSE, rows |-> EmptyBag]
    [] OTHER -> target[t]

\* The column syncTableChanges looks for in both databases.
HasUpdateAt(t) == primary[t].col = "updateat"

\* checkTableExists on both sides, handleMissingBackupTable, checkColumnExists
\* on both sides, getColumnDataType on both sides.
SyncCheck(c, t) ==
  LET s == sync[c][t] IN
  /\ s.pc = "check"
  /\ \/ /\ NoFault
        /\ ~primary[t].exists
        /\ SetSync(c, t, [s EXCEPT !.pc = "relP"])
        /\ UNCHANGED target
     \/ /\ primary[t].exists /\ ~target[t].exists
        /\ \/ /\ NoFault
              /\ target' = [target EXCEPT ![t] = HandleMissingBackupTable(t, "created")]
           \/ /\ Fault
              /\ \E how \in {"createdNoPk", "none"} :
                   target' = [target EXCEPT ![t] = HandleMissingBackupTable(t, how)]
        /\ SetSync(c, t, [s EXCEPT !.pc = "relP"])
     \/ /\ NoFault
        /\ primary[t].exists /\ target[t].exists /\ ~HasUpdateAt(t)
        /\ SetSync(c, t, [s EXCEPT !.pc = "relP"])
        /\ UNCHANGED target
     \/ /\ NoFault
        /\ primary[t].exists /\ target[t].exists /\ HasUpdateAt(t)
        /\ SetSync(c, t, [s EXCEPT !.pc = "read"])
        /\ UNCHANGED target
     \/ /\ Fault   \* a catalog query rejects: the check answers false
        /\ SetSync(c, t, [s EXCEPT !.pc = "relP"])
        /\ UNCHANGED target
     \/ /\ Fault   \* getColumnDataType rejects: the type reads 'unknown'
        /\ primary[t].exists /\ target[t].exists /\ HasUpdateAt(t)
        /\ SetSync(c, t, [s EXCEPT !.pc = "read"])
        /\ UNCHANGED target
  /\ UNCHANGED <<lastRead, outcome>>
  /\ SyncFrame

\* SELECT COALESCE(MAX(updateat), 0) ... .catch(() => [{ last_sync: 0 }])
ReadLastSync(t, rejected) ==
  IF rejected \/ ~target[t].exists THEN 0 ELSE Watermark(target[t].rows)

SyncRead(c, t) ==
  LET s == sync[c][t] IN
  /\ s.pc = "read"
  /\ \E rejected \in BOOLEAN :
       /\ IF rejected THEN Fault ELSE NoFault
       /\ SetSync(c, t, [s EXCEPT !.pc = "pull", !.lastSync = ReadLastSync(t, rejected)])
       /\ lastRead' = [lastRead EXCEPT ![t] = ReadLastSync(t, rejected)]
  /\ UNCHANGED <<target, outcome>>
  /\ SyncFrame

\* SELECT * FROM "<table>" WHERE updateat > $1 ORDER BY updateat LIMIT 100
\*   .catch(() => [])
ChangedRecords(t, w) == Pages(Changed(primary[t].rows, w), PageLimit)

SyncPull(c, t) ==
  LET s == sync[c][t] IN
  /\ s.pc = "pull"
  /\ \/ /\ NoFault
        /\ \E pg \in ChangedRecords(t, s.lastSync) :
             SetSync(c, t, [s EXCEPT !.pc = IF pg = {} THEN "relP" ELSE "schema",
                                     !.page = pg, !.todo = pg])
     \/ /\ Fault
        /\ SetSync(c, t, [s EXCEPT !.pc = "relP"])
  /\ UNCHANGED <<target, lastRead, outcome>>
  /\ SyncFrame

\* upsertRecords up to its first processBatch: getTableSchema (an empty or
\* rejected answer ends the upsert without a write) and getPrimaryKeyColumns
\* (a rejected answer is an empty key).
SyncSchema(c, t) ==
  LET s == sync[c][t] IN
  /\ s.pc = "schema"
  /\ \/ /\ NoFault
        /\ target[t].exists
        /\ SetSync(c, t, [s EXCEPT !.pc = "rows", !.usePk = target[t].pk])
     \/ /\ NoFault
        /\ ~target[t].exists
        /\ SetSync(c, t, [s EXCEPT !.pc = "relP"])
     \/ /\ Fault   \* getTableSchema rejects
        /\ SetSync(c, t, [s EXCEPT !.pc = "relP"])
     \/ /\ Fault   \* getPrimaryKeyColumns rejects
        /\ target[t].exists
        /\ SetSync(c, t, [s EXCEPT !.pc = "rows", !.usePk = FALSE])
  /\ UNCHANGED <<target, lastRead, outcome>>
  /\ SyncFrame

\* The record the loop of processBatch can take next: the records come in
\* the order of the query that fetched them, by updateat for a detection
\* cycle, in no stated order for forceSyncTable (SELECT * ... LIMIT 1000).
NextRecords(c, todo) == IF c = ForceSlot THEN todo ELSE First(todo)

\* A processBatch that left its loop at the first rejected row.
AfterRowAborts(rest, ok) == IF ok /\ rest # {} THEN "rows" ELSE "relP"

\* Where the run goes after one row of processBatch: the next row whatever
\* the row's outcome, the finally block after the last one.
AfterRow(rest, ok) == IF rest = {} THEN "relP" ELSE "rows"

\* processBatch, one record: the statement is executed; a rejection is
\* caught and logged and the loop goes on.
SyncRow(c, t) ==
  LET s == sync[c][t] IN
  /\ s.pc = "rows"
  /\ \E r \in NextRecords(c, s.todo) :
       \/ /\ NoFault
          /\ target[t].exists /\ StatementOk(target[t].pk, s.usePk)
          /\ target' = [target EXCEPT ![t].rows = ProcessRow(@, target[t].pk, s.usePk, r)]
          /\ SetSync(c, t, [s EXCEPT !.pc = AfterRow(s.todo \ {r}, TRUE),
                                  !.todo = @ \ {r}, !.wrote = @ + 1])
       \/ /\ NoFault
          /\ ~(target[t].exists /\ StatementOk(target[t].pk, s.usePk))
          /\ UNCHANGED target
          /\ SetSync(c, t, [s EXCEPT !.pc = AfterRow(s.todo \ {r}, FALSE),
                                  !.todo = @ \ {r}, !.errs = @ + 1])
       \/ /\ Fault
          /\ UNCHANGED target
          /\ SetSync(c, t, [s EXCEPT !.pc = AfterRow(s.todo \ {r}, FALSE),
                                  !.todo = @ \ {r}, !.errs = @ + 1])
  /\ UNCHANGED <<lastRead, outcome>>
  /\ SyncFrame

\* The object forceSyncTable answers with, from the run s that has ended:
\* {success: false, recordsProcessed: 0} when a table is missing or something
\* was thrown, else success with allRecords.length.
ForceSyncAnswer(s) ==
  IF s.failed \/ s.threw THEN [success |-> FALSE, recordsProcessed |-> 0]
  ELSE [success |-> TRUE, recordsProcessed |-> Cardinality(s.page)]

\* The coercion of a string value before it is bound to a statement.  A
\* string is the sequence of its characters.
Chars == {"t", "T", "r", "R", "u", "U", "e", "E", "1", "\""}

\* String.prototype.toLowerCase
toLowerCase(s) ==
  [i \in DOMAIN s |->
     CASE s[i] = "T" -> "t"
       [] s[i] = "R" -> "r"
       [] s[i] = "U" -> "u"
       [] s[i] = "E" -> "e"
       [] OTHER -> s[i]]

\* JSON.parse(s) does not throw: over Chars a JSON text is a number, the
\* literal true, or a string literal.
JSONParses(s) ==
  \/ s # <<>> /\ \A i \in DOMAIN s : s[i] = "1"
  \/ s = <<"t", "r", "u", "e">>
  \/ /\ Len(s) >= 2
     /\ s[1] = "\"" /\ s[Len(s)] = "\""
     /\ \A i \in 2..(Len(s) - 1) : s[i] # "\""

\* JSON.stringify(s) of a string: quoted, each quote escaped.
RECURSIVE Escaped(_)
Escaped(s) ==
  IF s = <<>> THEN <<>>
  ELSE (IF Head(s) = "\"" THEN <<"\\", "\"">> ELSE <<Head(s)>>) \o Escaped(Tail(s))

JSONStringify(s) == <<"\"">> \o Escaped(s) \o <<"\"">>

DataTypes == {"boolean", "jsonb", "text"}

\* CdcService.processColumnValue(value, dataType) for a string value
processColumnValue(value, dataType) ==
  CASE dataType = "boolean" ->
         toLowerCase(value) = <<"t", "r", "u", "e">> \/ value = <<"1">> \/ value = <<"t">>
    [] dataType = "jsonb" -> IF JSONParses(value) THEN value ELSE value
    [] OTHER -> value

\* BackupService.processValueForInsertion(value, dataType) for a string value
processValueForInsertion(value, dataType) ==
  CASE dataType = "boolean" ->
         toLowerCase(value) = <<"t", "r", "u", "e">> \/ value = <<"1">> \/ value = <<"t">>
    [] dataType = "jsonb" -> IF JSONParses(value) THEN value ELSE JSONStringify(value)
    [] OTHER -> value

NoBind == [value |-> <<>>, dataType |-> "none", cdc |-> <<>>, backup |-> <<>>]

\* One value of a record, coerced by both routines.
Coerce(value, dataType) ==
  /\ ticks > 0
  /\ ticks' = ticks - 1
  /\ bind' = [value |-> value, dataType |-> dataType,
              cdc |-> processColumnValue(value, dataType),
              backup |-> processValueForInsertion(value, dataType)]
  /\ UNCHANGED <<isMonitoring, primary, target, cyc, sync, bk, healthMetrics, ledger, reply,
                 sql, ddl, status, faults, lastRead, outcome>>

\* The creation of a missing target table, step by step.  A column is
\* [data_type, udt_name] as information_schema.columns lists it; a CREATE
\* TABLE is the set of the type names it uses; enums is the set of enum
\* types the target has.
ColumnKinds ==
  { [data_type |-> "integer", udt_name |-> "int4"],
    [data_type |-> "USER-DEFINED", udt_name |-> "mood"],
    [data_type |-> "ARRAY", udt_name |-> "_int4"],
    [data_type |-> "xml", udt_name |-> "xml"] }

BuiltInTypes == {"integer", "text", "xml", "text[]", "integer[]"}

\* How a statement rejects: "none" (it does not), "missingType" (type ...
\* does not exist) or "other".
Rejects == {"none", "missingType", "other"}

\* backupRunner.query(CREATE TABLE ...): ARRAY is no type name (a syntax
\* error); a type the target has not is missing; rejected says how the
\* round trip itself fails.
CreateTable(types, enums, rejected) ==
  IF rejected # "none" THEN rejected
  ELSE IF "ARRAY" \in types THEN "other"
  ELSE IF ~(types \subseteq BuiltInTypes \cup enums) THEN "missingType"
  ELSE "none"

\* The CASE of the statement handleMissingBackupTable selects on the primary.
GeneratedType(col) ==
  IF col.data_type = "USER-DEFINED" THEN "text" ELSE col.data_type

\* The type pg_dump --schema-only writes for the column.
DumpedType(col) ==
  CASE col.data_type = "USER-DEFINED" -> col.udt_name
    [] col.data_type = "ARRAY" -> "integer[]"
    [] OTHER -> col.data_type

\* The switch of CdcService.createTableWithFallback.
FallbackType(col) ==
  CASE col.data_type = "integer" -> "integer"
    [] col.data_type = "USER-DEFINED" -> col.udt_name
    [] OTHER -> "text"

\* BackupService.mapSimpleType
mapSimpleType(dataType) ==
  CASE dataType = "integer" -> "integer"
    [] dataType = "text" -> "text"
    [] OTHER -> "text"

\* BackupService.mapPostgreSQLDataType
mapPostgreSQLDataType(col) ==
  CASE col.data_type = "USER-DEFINED" -> "text"
    [] col.data_type = "ARRAY" ->
         IF col.udt_name = "_int4" THEN mapSimpleType("int4") \o "[]" ELSE "text[]"
    [] OTHER -> mapSimpleType(col.data_type)

\* One step of a creation: what ran, how it rejected, the CREATE TABLE it
\* sent, and what became of the primary key it attaches after its CREATE
\* TABLE ("none": no ALTER TABLE was sent).
Step(step, why, types, pk) == [step |-> step, why |-> why, types |-> types, pk |-> pk]

\* The rejections of one creation, one per round trip.
RoundTrips ==
  [drop : BOOLEAN, replay : Rejects, pk : BOOLEAN, copyEnumTypes : BOOLEAN,
   retry : Rejects, fallback : BOOLEAN]

\* CdcService.handleMissingBackupTable after the generated statement is
\* read: the statement and the primary key, in one try; after a missing
\* type, copyEnumTypes and the statement once more; else
\* createTableWithFallback.  exists says that a CREATE TABLE of an earlier
\* step went through.
HandleMissingSteps(cols, enums, r) ==
  LET generated == {GeneratedType(c) : c \in cols}
      created == CreateTable(generated, enums, r.replay)
      first == IF created = "none" /\ r.pk THEN "other" ELSE created
      replay == Step("replay", first, generated,
                     IF created # "none" THEN "none"
                     ELSE IF r.pk THEN "failed" ELSE "attached")
      copied == enums \cup {c.udt_name : c \in {k \in cols : k.data_type = "USER-DEFINED"}}
      again == CreateTable(generated, copied, r.retry)
      generic(have, exists) ==
        Step("fallback",
             IF exists \/ r.fallback THEN "other"
             ELSE CreateTable({FallbackType(c) : c \in cols}, have, "none"),
             {FallbackType(c) : c \in cols}, "none")
  IN IF first = "none"
       THEN [steps |-> <<replay>>, enums |-> enums, threw |-> FALSE]
     ELSE IF first = "missingType"
       THEN IF r.copyEnumTypes
              THEN [steps |-> <<replay, Step("copyEnumTypes", "other", {}, "none"),
                                generic(enums, FALSE)>>,
                    enums |-> enums, threw |-> FALSE]
            ELSE IF again = "none"
              THEN [steps |-> <<replay, Step("copyEnumTypes", "none", {}, "none"),
                                Step("retry", "none", generated, "none")>>,
                    enums |-> copied, threw |-> FALSE]
            ELSE [steps |-> <<replay, Step("copyEnumTypes", "none", {}, "none"),
                              Step("retry", again, generated, "none"),
                              generic(copied, FALSE)>>,
                  enums |-> copied, threw |-> FALSE]
     ELSE [steps |-> <<replay, generic(enums, created = "none")>>,
           enums |-> enums, threw |-> FALSE]

\* BackupService.createTableInBackup after the drop: the cleaned pg_dump
\* output (the primary key is part of it); when that or pg_dump rejects,
\* createTableFallback, whose copyPrimaryKeyConstraint is only logged when
\* it rejects.  there says that the table outlived the drop; the rejection
\* of createTableFallback is thrown.
CreateTableInBackupSteps(cols, enums, r, there) ==
  LET dumped == {DumpedType(c) : c \in cols}
      sent == CreateTable(dumped, enums, r.replay)
      first == IF sent = "none" /\ there THEN "other" ELSE sent
      mapped == {mapPostgreSQLDataType(c) : c \in cols}
      second == IF there \/ r.fallback THEN "other" ELSE CreateTable(mapped, enums, "none")
  IN IF first = "none"
       THEN [steps |-> <<Step("replay", "none", dumped, "attached")>>, enums |-> enums,
             threw |-> FALSE]
       ELSE [steps |-> <<Step("replay", first, dumped, "none"),
                         Step("fallback", second, mapped,
                              IF second # "none" THEN "none"
                              ELSE IF r.pk THEN "failed" ELSE "attached")>>,
             enums |-> enums, threw |-> second # "none"]

NoDdl == [service |-> "none", cols |-> {}, before |-> {}, enums |-> {}, steps |-> <<>>,
          existed |-> FALSE, exists |-> FALSE, threw |-> FALSE]

\* A step whose CREATE TABLE went through.
Made(s) == s.pk # "none" \/ (s.why = "none" /\ s.step # "copyEnumTypes")

\* One creation of a table by either service: the cycle creates a table it
\* found missing; a backup creates a missing table or, forced, one that is
\* there, after DROP TABLE IF EXISTS, whose rejection is only logged.
CreateSchema(service, cols, enums, existed, r) ==
  LET there == existed /\ r.drop
      done == IF service = "cdc" THEN HandleMissingSteps(cols, enums, r)
              ELSE CreateTableInBackupSteps(cols, enums, r, there) IN
  /\ ticks > 0
  /\ ticks' = ticks - 1
  /\ service = "cdc" => ~existed
  /\ ddl' = [service |-> service, cols |-> cols, before |-> enums,
             enums |-> done.enums, steps |-> done.steps, existed |-> existed,
             exists |-> there \/ \E i \in DOMAIN done.steps : Made(done.steps[i]),
             threw |-> done.threw]
  /\ UNCHANGED <<isMonitoring, primary, target, cyc, sync, bk, healthMetrics, ledger, reply,
                 sql, bind, status, faults, lastRead, outcome>>

\* processBatch, the statement it builds.  A record is the set of its keys
\* (the columns of the primary table it was selected from), tableSchema the
\* set of the target's columns, pkColumns the target's key as
\* getPrimaryKeyColumns answered it.

\* A filter that lets every column of the record through.
ValidColumnsAll(columns, tableSchema) == columns

\* columns.filter(col => columnTypeMap.has(col))
ValidColumns(columns, tableSchema) == columns \cap tableSchema

\* The statement for one record.  clause "onConflictTarget": ON CONFLICT
\* (conflictTarget) DO UPDATE SET updateSet, or DO NOTHING when updateSet is
\* empty; "none": a plain INSERT; "onConflict": ON CONFLICT DO NOTHING.
BuildStatement(validColumns, pkColumns) ==
  LET conflictTarget == pkColumns \cap validColumns
      updateSet == validColumns \ pkColumns
  IN IF pkColumns # {}
       THEN IF conflictTarget # {}
              THEN [columns |-> validColumns, clause |-> "onConflictTarget",
                    conflictTarget |-> conflictTarget, updateSet |-> updateSet]
              ELSE [columns |-> validColumns, clause |-> "none",
                    conflictTarget |-> {}, updateSet |-> {}]
       ELSE [columns |-> validColumns, clause |-> "onConflict",
             conflictTarget |-> {}, updateSet |-> {}]

NoSql == [records |-> <<>>, tableSchema |-> {}, pkColumns |-> {}, statements |-> <<>>,
          warned |-> FALSE]

\* processBatch(queryRunner, tableName, records, tableSchema, pkColumns):
\* the columns are those of records[0]; with no valid column the batch is
\* left with a warning.
ProcessBatch(records, tableSchema, pkColumns) ==
  LET validColumns == ValidColumns(records[1], tableSchema) IN
  /\ ticks > 0
  /\ ticks' = ticks - 1
  /\ sql' = [records |-> records, tableSchema |-> tableSchema, pkColumns |-> pkColumns,
             statements |-> IF validColumns = {} THEN <<>>
                            ELSE [i \in 1..Len(records) |->
                                    BuildStatement(validColumns, pkColumns)],
             warned |-> validColumns = {}]
  /\ UNCHANGED <<isMonitoring, primary, target, cyc, sync, bk, healthMetrics, ledger, reply,
                 ddl, bind, status, faults, lastRead, outcome>>

\* What forceSyncTable hands back: its outer try/catch turns whatever the
\* body or the finally block throws into {success: false, ...}.
ForceSyncTableResult(threw) == "returned"

\* The end of a run: syncTableChanges has logged what its body threw and
\* rethrows only what its finally block throws, to the map callback of the
\* cycle; forceSyncTable answers its caller.
SyncReturns(c, s) ==
  outcome' = IF c = ForceSlot
               THEN [outcome EXCEPT !["forceSyncTable"] =
                       ForceSyncTableResult(s.failed \/ s.threw)]
               ELSE outcome

\* finally { await primaryRunner.release(); await backupRunner.release(); }
\* A rejected release leaves the finally block at once.
SyncReleasePrimary(c, t) ==
  LET s == sync[c][t] IN
  /\ s.pc = "relP"
  /\ \/ /\ NoFault
        /\ SetSync(c, t, [s EXCEPT !.pc = "relB", !.pR = Released(@)])
        /\ UNCHANGED outcome
     \/ /\ Fault
        /\ SetSync(c, t, [s EXCEPT !.pc = "done", !.threw = TRUE])
        /\ SyncReturns(c, [s EXCEPT !.threw = TRUE])
  /\ UNCHANGED <<target, lastRead>>
  /\ SyncFrame

SyncReleaseBackup(c, t) ==
  LET s == sync[c][t] IN
  /\ s.pc = "relB"
  /\ \/ /\ NoFault
        /\ SetSync(c, t, [s EXCEPT !.pc = "done", !.bR = Released(@)])
        /\ SyncReturns(c, s)
     \/ /\ Fault
        /\ SetSync(c, t, [s EXCEPT !.pc = "done", !.threw = TRUE])
        /\ SyncReturns(c, [s EXCEPT !.threw = TRUE])
  /\ UNCHANGED <<target, lastRead>>
  /\ SyncFrame

SyncStep(c, t) ==
  \/ SyncConnect(c, t)
  \/ SyncCheck(c, t)
  \/ SyncRead(c, t)
  \/ SyncPull(c, t)
  \/ SyncSchema(c, t)
  \/ SyncRow(c, t)
  \/ SyncReleasePrimary(c, t)
  \/ SyncReleaseBackup(c, t)

----------------------------------------------------------------------------
(* CdcService: the 30-second cycle *)

IdleCycle == [pc |-> "idle", tables |-> <<>>, i |-> 1, err |-> FALSE]

\* The column names getTablesWithTimestamp selects.
TimestampLike(col) ==
  col \in {"updateat", "updated_at", "modified", "last_modified", "last_updated"}

\* getTablesWithTimestamp: ORDER BY table_name
TablesWithTimestamp ==
  SelectSeq([t \in Tables |-> t],
            LAMBDA t : primary[t].exists /\ TimestampLike(primary[t].col))

\* tables.slice(i, i + concurrencyLimit)
Batch(tables, i) == {tables[j] : j \in i..Min(i + concurrencyLimit - 1, Len(tables))}

\* batch.map(async (table) => ...): every table of the batch starts its sync
StartBatch(c, tables, i) ==
  sync' = [sync EXCEPT ![c] =
            [t \in Tables |-> IF t \in Batch(tables, i) THEN StartedSync ELSE @[t]]]

\* What monitorChanges hands back to the scheduler: the try/catch around
\* detectAndSyncChanges logs whatever it throws.
MonitorChangesResult(threw) == "returned"

Returned(e, r) == outcome' = [outcome EXCEPT ![e] = r]

\* onModuleInit -> startChangeMonitoring
OnModuleInit ==
  /\ ~isMonitoring
  /\ isMonitoring' = TRUE
  /\ UNCHANGED <<primary, target, cyc, sync, bk, healthMetrics, ledger, reply, sql, ddl, bind, status, faults, ticks, lastRead, outcome>>

FreeSlot(c) == cyc[c].pc \in {"idle", "done"}

\* @Cron(EVERY_30_SECONDS) monitorChanges: the scheduler calls it on every
\* tick, whether or not an earlier call has returned.
MonitorChanges(c) ==
  /\ ticks # 0
  /\ FreeSlot(c)
  /\ \A d \in Slots : d < c => ~FreeSlot(d)
  /\ ticks' = IF ticks > 0 THEN ticks - 1 ELSE ticks
  /\ \/ /\ ~isMonitoring
        /\ Returned("monitorChanges", "returned")
        /\ UNCHANGED <<cyc, sync>>
     \/ /\ isMonitoring
        /\ cyc' = [cyc EXCEPT ![c] = [IdleCycle EXCEPT !.pc = "list"]]
        /\ sync' = [sync EXCEPT ![c] = [t \in Tables |-> IdleSync]]
        /\ UNCHANGED outcome
  /\ UNCHANGED <<isMonitoring, primary, target, bk, healthMetrics, ledger, reply, sql, ddl, bind, status, faults, lastRead>>

\* detectAndSyncChanges up to the first batch.  getTablesWithTimestamp
\* answers [] when its query rejects.
DetectTables(c) ==
  /\ cyc[c].pc = "list"
  /\ \/ /\ NoFault
        /\ TablesWithTimestamp # <<>>
        /\ cyc' = [cyc EXCEPT ![c] = [@ EXCEPT !.pc = "run", !.tables = TablesWithTimestamp]]
        /\ StartBatch(c, TablesWithTimestamp, 1)
        /\ UNCHANGED outcome
     \/ /\ NoFault
        /\ TablesWithTimestamp = <<>>
        /\ cyc' = [cyc EXCEPT ![c] = [@ EXCEPT !.pc = "done"]]
        /\ Returned("monitorChanges", MonitorChangesResult(FALSE))
        /\ UNCHANGED sync
     \/ /\ Fault   \* the catalog query rejects
        /\ cyc' = [cyc EXCEPT ![c] = [@ EXCEPT !.pc = "done"]]
        /\ Returned("monitorChanges", MonitorChangesResult(FALSE))
        /\ UNCHANGED sync
     \/ /\ Fault   \* queryRunner.release() rejects in the finally block
        /\ cyc' = [cyc EXCEPT ![c] = [@ EXCEPT !.pc = "done", !.err = TRUE]]
        /\ Returned("monitorChanges", MonitorChangesResult(TRUE))
        /\ UNCHANGED sync
  /\ UNCHANGED <<isMonitoring, primary, target, bk, healthMetrics, ledger, reply, sql, ddl, bind, status, ticks, lastRead>>

BatchSettled(c) ==
  \A t \in Batch(cyc[c].tables, cyc[c].i) : sync[c][t].pc = "done"

\* A cycle that gave up its remaining groups once a table's sync threw.
NextBatchAborts(tables, i, threw) ==
  IF ~threw /\ i + concurrencyLimit <= Len(tables) THEN i + concurrencyLimit ELSE 0

\* Where the cycle goes when Promise.allSettled resolves: the next batch, or
\* the end of the list.  A sync that threw was caught in the map callback.
NextBatch(tables, i, threw) ==
  IF i + concurrencyLimit <= Len(tables) THEN i + concurrencyLimit ELSE 0

\* await Promise.allSettled(...) resolves
BatchDone(c) ==
  LET k == cyc[c]
      threw == \E t \in Batch(k.tables, k.i) : sync[c][t].threw
      n == NextBatch(k.tables, k.i, threw)
  IN
  /\ k.pc = "run"
  /\ BatchSettled(c)
  /\ IF n # 0
       THEN /\ cyc' = [cyc EXCEPT ![c] = [@ EXCEPT !.i = n]]
            /\ StartBatch(c, k.tables, n)
            /\ UNCHANGED outcome
       ELSE /\ cyc' = [cyc EXCEPT ![c] = [@ EXCEPT !.pc = "done"]]
            /\ Returned("monitorChanges", MonitorChangesResult(FALSE))
            /\ UNCHANGED sync
  /\ UNCHANGED <<isMonitoring, primary, target, bk, healthMetrics, ledger, reply, sql, ddl, bind, status, faults, ticks, lastRead>>

CycleStep(c) ==
  \/ MonitorChanges(c)
  \/ DetectTables(c)
  \/ BatchDone(c)
  \/ \E t \in Tables : SyncStep(c, t)

----------------------------------------------------------------------------
(* CdcService.forceSyncTable: a run of slot 0 *)

\* The sets S loses k rows to.
RECURSIVE Without(_, _)
Without(S, k) == IF k = 0 THEN {S} ELSE UNION {Without(S \ {r}, k - 1) : r \in S}

\* SELECT * FROM "<table>" LIMIT lim: any lim rows of the table
AnyRows(S, lim) ==
  IF Cardinality(S) <= lim THEN {S} ELSE Without(S, Cardinality(S) - lim)

\* POST /cdc/sync/:tableName
ForceSyncTable(t) ==
  /\ ticks > 0
  /\ sync[ForceSlot][t].pc \in {"idle", "done"}
  /\ ticks' = ticks - 1
  /\ SetSync(ForceSlot, t, StartedSync)
  /\ UNCHANGED <<isMonitoring, primary, target, cyc, bk, healthMetrics, ledger, reply, sql, ddl, bind, status, faults, lastRead,
                 outcome>>

\* checkTableExists on both sides (a rejected query answers false); a table
\* missing on either side ends the run with {success: false, ...}.
ForceCheck(t) ==
  LET s == sync[ForceSlot][t] IN
  /\ s.pc = "check"
  /\ \/ /\ NoFault
        /\ primary[t].exists /\ target[t].exists
        /\ SetSync(ForceSlot, t, [s EXCEPT !.pc = "select"])
     \/ /\ NoFault
        /\ ~(primary[t].exists /\ target[t].exists)
        /\ SetSync(ForceSlot, t, [s EXCEPT !.pc = "relP", !.failed = TRUE])
     \/ /\ Fault
        /\ SetSync(ForceSlot, t, [s EXCEPT !.pc = "relP", !.failed = TRUE])
  /\ UNCHANGED <<target, lastRead, outcome>>
  /\ SyncFrame

\* SELECT * FROM "<table>" LIMIT 1000; a rejection is thrown
ForceSelect(t) ==
  LET s == sync[ForceSlot][t] IN
  /\ s.pc = "select"
  /\ \/ /\ NoFault
        /\ \E pg \in AnyRows(primary[t].rows, ForceLimit) :
             SetSync(ForceSlot, t, [s EXCEPT !.pc = IF pg = {} THEN "relP" ELSE "schema",
                                             !.page = pg, !.todo = pg])
     \/ /\ Fault
        /\ SetSync(ForceSlot, t, [s EXCEPT !.pc = "relP", !.failed = TRUE])
  /\ UNCHANGED <<target, lastRead, outcome>>
  /\ SyncFrame

ForceStep(t) ==
  \/ ForceSyncTable(t)
  \/ SyncConnect(ForceSlot, t)
  \/ ForceCheck(t)
  \/ ForceSelect(t)
  \/ SyncSchema(ForceSlot, t)
  \/ SyncRow(ForceSlot, t)
  \/ SyncReleasePrimary(ForceSlot, t)
  \/ SyncReleaseBackup(ForceSlot, t)

----------------------------------------------------------------------------
(* BackupService: performFullBackup and backupTable *)

IdleBackup ==
  [pc |-> "idle", entry |-> "none", force |-> FALSE, single |-> FALSE,
   tables |-> <<>>, i |-> 1, pR |-> "none", bR |-> "none", exc |-> FALSE,
   todo |-> {}, rej |-> [t \in Tables |-> {}],
   res |-> [t \in Tables |-> "none"]]

BackupFrame == UNCHANGED <<isMonitoring, primary, cyc, sync, healthMetrics, ledger, reply, sql, ddl, bind, status, ticks, lastRead>>

\* What each entry point hands back: every one of them wraps its work in a
\* try/catch that logs (the scheduled jobs) or answers {success: false, ...}
\* (the controller).
PerformScheduledBackupResult(threw) == "returned"
PerformDailyFullBackupResult(threw) == "returned"
\* A controller without its try/catch: what the service throws goes out.
TriggerManualBackupPropagates(threw) == IF threw THEN "threw" ELSE "returned"
TriggerManualBackupResult(threw) == "returned"

\* The object POST /backup/manual answers with: {success, message,
\* timestamp}; success is false only when the service call threw.
TriggerManualBackupAnswer(threw) == [success |-> ~threw]

BackupResult(entry, threw) ==
  CASE entry = "performScheduledBackup" -> PerformScheduledBackupResult(threw)
    [] entry = "performDailyFullBackup" -> PerformDailyFullBackupResult(threw)
    [] OTHER -> TriggerManualBackupResult(threw)

\* getAllTables: SELECT tablename FROM pg_tables ... ORDER BY tablename
AllTables == SelectSeq([t \in Tables |-> t], LAMBDA t : primary[t].exists)

\* The table backupTable is working on.
BkTable == bk.tables[bk.i]

\* backupTable starts: createQueryRunner() twice, then connect()
StartedTable(b) ==
  [b EXCEPT !.pc = "connect", !.pR = "created", !.bR = "created", !.exc = FALSE, !.todo = {},
            !.rej[b.tables[b.i]] = {}]

\* @Cron(EVERY_HOUR) performScheduledBackup, @Cron('0 2 * * *')
\* performDailyFullBackup, POST /backup/manual without a table
StartFullBackup(entry, force) ==
  /\ ticks > 0
  /\ bk.pc \in {"idle", "done"}
  /\ ticks' = ticks - 1
  /\ bk' = [IdleBackup EXCEPT !.pc = "tables", !.entry = entry, !.force = force]
  /\ UNCHANGED <<isMonitoring, primary, target, cyc, sync, healthMetrics, ledger, reply, sql, ddl, bind, status, faults, lastRead,
                 outcome>>

\* POST /backup/manual?table=<t>&force=<force>
StartTableBackup(t, force) ==
  /\ ticks > 0
  /\ bk.pc \in {"idle", "done"}
  /\ ticks' = ticks - 1
  /\ bk' = StartedTable([IdleBackup EXCEPT !.entry = "triggerManualBackup", !.force = force,
                                           !.single = TRUE, !.tables = <<t>>])
  /\ UNCHANGED <<isMonitoring, primary, target, cyc, sync, healthMetrics, ledger, reply, sql, ddl, bind, status, faults, lastRead,
                 outcome>>

\* performFullBackup: const tables = await this.getAllTables(); a rejection
\* is thrown to the entry point.
BackupTables ==
  /\ bk.pc = "tables"
  /\ \/ /\ NoFault
        /\ AllTables # <<>>
        /\ bk' = StartedTable([bk EXCEPT !.tables = AllTables])
        /\ UNCHANGED outcome
     \/ /\ NoFault
        /\ AllTables = <<>>
        /\ bk' = [bk EXCEPT !.pc = "done"]
        /\ Returned(bk.entry, BackupResult(bk.entry, FALSE))
     \/ /\ Fault
        /\ bk' = [bk EXCEPT !.pc = "done", !.exc = TRUE]
        /\ Returned(bk.entry, BackupResult(bk.entry, TRUE))
  /\ UNCHANGED target
  /\ BackupFrame

\* await queryRunnerPrimary.connect(); await queryRunnerBackup.connect();
BackupConnect ==
  /\ bk.pc = "connect"
  /\ \/ /\ NoFault
        /\ bk' = [bk EXCEPT !.pc = "exists", !.pR = "connected", !.bR = "connected"]
     \/ /\ Fault
        /\ bk' = [bk EXCEPT !.pc = "relP", !.exc = TRUE]
     \/ /\ Fault
        /\ bk' = [bk EXCEPT !.pc = "relP", !.pR = "connected", !.exc = TRUE]
  /\ UNCHANGED <<target, outcome>>
  /\ BackupFrame

\* A schema step that rebuilt the table whether or not it is there.
NeedsCreateAlways(tableExists, forceRecreate) == TRUE

\* if (!tableExists || forceRecreate): createTableInBackup is called
NeedsCreate(tableExists, forceRecreate) == ~tableExists \/ forceRecreate

\* checkTableExists(queryRunnerBackup, tableName); if (!tableExists || forceRecreate)
BackupExists ==
  /\ bk.pc = "exists"
  /\ \/ /\ NoFault
        /\ bk' = [bk EXCEPT !.pc = IF NeedsCreate(target[BkTable].exists, bk.force)
                                     THEN "drop" ELSE "select"]
     \/ /\ Fault
        /\ bk' = [bk EXCEPT !.pc = "relP", !.exc = TRUE]
  /\ UNCHANGED <<target, outcome>>
  /\ BackupFrame

Dropped == [exists |-> FALSE, pk |-> FALSE, rows |-> EmptyBag]

\* createTableInBackup: DROP TABLE IF EXISTS "<table>" CASCADE; a rejection
\* is logged as a warning
BackupDrop ==
  /\ bk.pc = "drop"
  /\ \/ /\ NoFault
        /\ target' = [target EXCEPT ![BkTable] = Dropped]
     \/ /\ Fault
        /\ UNCHANGED target
  /\ bk' = [bk EXCEPT !.pc = "create"]
  /\ UNCHANGED outcome
  /\ BackupFrame

\* The table createTableInBackup leaves in the target.
\*   "replay":       the definition pg_dump extracted is executed
\*   "fallback":     createTableFallback: CREATE TABLE, then
\*                   copyPrimaryKeyConstraint
\*   "fallbackNoPk": as "fallback", the ALTER TABLE rejected and logged
CreateTableInBackup(t, how) ==
  [exists |-> TRUE, pk |-> IF how = "fallbackNoPk" THEN FALSE ELSE primary[t].pk,
   rows |-> EmptyBag]

\* createTableInBackup after the DROP: the replay of the pg_dump output, or
\* (pg_dump failed or gave no CREATE TABLE) createTableFallback, whose
\* ALTER TABLE ... ADD PRIMARY KEY may be rejected and is then only logged.
\* CREATE TABLE is rejected when the table is there (the DROP was rejected,
\* or a detection cycle created it meanwhile): the error is thrown.
BackupCreate ==
  /\ bk.pc = "create"
  /\ \/ /\ NoFault
        /\ ~target[BkTable].exists
        /\ \E how \in {"replay", "fallback"} :
             target' = [target EXCEPT ![BkTable] = CreateTableInBackup(BkTable, how)]
        /\ bk' = [bk EXCEPT !.pc = "select"]
     \/ /\ Fault
        /\ ~target[BkTable].exists
        /\ target' = [target EXCEPT ![BkTable] = CreateTableInBackup(BkTable, "fallbackNoPk")]
        /\ bk' = [bk EXCEPT !.pc = "select"]
     \/ /\ NoFault
        /\ target[BkTable].exists
        /\ UNCHANGED target
        /\ bk' = [bk EXCEPT !.pc = "relP", !.exc = TRUE]
  /\ UNCHANGED outcome
  /\ BackupFrame

\* A reload that cleared the target whether or not the recreate is forced.
AfterSelectTruncates(data, forceRecreate) == IF data = {} THEN "relP" ELSE "truncate"

\* if (data.length > 0) { if (forceRecreate) TRUNCATE ...; insertDataInBatches }
AfterSelect(data, forceRecreate) ==
  CASE data = {} -> "relP"
    [] forceRecreate -> "truncate"
    [] OTHER -> "insert"

\* const data = await queryRunnerPrimary.query(`SELECT * FROM "<table>"`)
BackupSelect ==
  /\ bk.pc = "select"
  /\ \/ /\ NoFault
        /\ bk' = [bk EXCEPT !.pc = AfterSelect(primary[BkTable].rows, bk.force),
                            !.todo = primary[BkTable].rows]
     \/ /\ Fault
        /\ bk' = [bk EXCEPT !.pc = "relP", !.exc = TRUE]
  /\ UNCHANGED <<target, outcome>>
  /\ BackupFrame

\* TRUNCATE TABLE "<table>" CASCADE
BackupTruncate ==
  /\ bk.pc = "truncate"
  /\ \/ /\ NoFault
        /\ target[BkTable].exists
        /\ target' = [target EXCEPT ![BkTable].rows = EmptyBag]
        /\ bk' = [bk EXCEPT !.pc = "insert"]
     \/ /\ Fault
        /\ UNCHANGED target
        /\ bk' = [bk EXCEPT !.pc = "relP", !.exc = TRUE]
  /\ UNCHANGED outcome
  /\ BackupFrame

\* INSERT INTO "<table>" (...) VALUES (...), (...), ... ON CONFLICT DO NOTHING
RECURSIVE InsertAll(_, _, _)
InsertAll(T, hasPk, S) ==
  IF S = {} THEN T
  ELSE LET r == CHOOSE x \in S : TRUE
       IN InsertAll(InsertIgnore(T, hasPk, r), hasPk, S \ {r})

\* insertDataInBatches: the batch (1000 rows a statement) goes in one
\* statement; when that is rejected the rows go one by one.
BackupInsert ==
  /\ bk.pc = "insert"
  /\ \/ /\ NoFault
        /\ target[BkTable].exists
        /\ target' = [target EXCEPT ![BkTable].rows = InsertAll(@, target[BkTable].pk, bk.todo)]
        /\ bk' = [bk EXCEPT !.pc = "relP", !.todo = {}]
     \/ /\ Fault
        /\ UNCHANGED target
        /\ bk' = [bk EXCEPT !.pc = "rows"]
  /\ UNCHANGED outcome
  /\ BackupFrame

\* A row-by-row reload that gave up at the first rejected row.
AfterInsertStops(rest, ok) == IF rest = {} \/ ~ok THEN "relP" ELSE "rows"

\* Where insertRowsIndividually goes after one row, inserted or rejected.
AfterInsert(rest, ok) == IF rest = {} THEN "relP" ELSE "rows"

\* insertRowsIndividually, one row: INSERT ... ON CONFLICT DO NOTHING; a
\* rejection is caught and logged and the loop goes on.
BackupRow ==
  /\ bk.pc = "rows"
  /\ \E r \in bk.todo :
       \/ /\ NoFault
          /\ target[BkTable].exists
          /\ target' = [target EXCEPT ![BkTable].rows = InsertIgnore(@, target[BkTable].pk, r)]
          /\ bk' = [bk EXCEPT !.pc = AfterInsert(bk.todo \ {r}, TRUE), !.todo = @ \ {r}]
       \/ /\ Fault
          /\ UNCHANGED target
          /\ bk' = [bk EXCEPT !.pc = AfterInsert(bk.todo \ {r}, FALSE), !.todo = @ \ {r},
                              !.rej[BkTable] = @ \cup {r}]
  /\ UNCHANGED outcome
  /\ BackupFrame

\* A full backup that stopped at the first table whose backup threw.
NextTableStops(tables, i, threw) == IF i < Len(tables) /\ ~threw THEN i + 1 ELSE 0

\* Where performFullBackup goes when backupTable has ended: its catch logs
\* what the table threw and the loop takes the next table.
NextTable(tables, i, threw) == IF i < Len(tables) THEN i + 1 ELSE 0

\* How a call of backupTable ended: it threw, or it returned (the rows that
\* insertRowsIndividually saw rejected are logged, not thrown).
TableResult(b) == IF b.exc THEN "threw" ELSE "done"

\* backupTable has left its finally block.  Called by the controller, what
\* it threw goes to the controller; called by performFullBackup, the loop
\* goes on.
BackupTableEnds(b) ==
  LET n == NextTable(b.tables, b.i, b.exc)
      e == [b EXCEPT !.res[b.tables[b.i]] = TableResult(b)]
  IN
  IF b.single
    THEN /\ bk' = [e EXCEPT !.pc = "done"]
         /\ Returned(b.entry, BackupResult(b.entry, b.exc))
    ELSE IF n # 0
      THEN /\ bk' = StartedTable([e EXCEPT !.i = n])
           /\ UNCHANGED outcome
      ELSE /\ bk' = [e EXCEPT !.pc = "done", !.exc = FALSE]
           /\ Returned(b.entry, BackupResult(b.entry, FALSE))

\* finally { await queryRunnerPrimary.release(); await queryRunnerBackup.release(); }
BackupReleasePrimary ==
  /\ bk.pc = "relP"
  /\ \/ /\ NoFault
        /\ bk' = [bk EXCEPT !.pc = "relB", !.pR = Released(@)]
        /\ UNCHANGED outcome
     \/ /\ Fault
        /\ BackupTableEnds([bk EXCEPT !.exc = TRUE])
  /\ UNCHANGED target
  /\ BackupFrame

BackupReleaseBackup ==
  /\ bk.pc = "relB"
  /\ \/ /\ NoFault
        /\ BackupTableEnds([bk EXCEPT !.bR = Released(@)])
     \/ /\ Fault
        /\ BackupTableEnds([bk EXCEPT !.exc = TRUE])
  /\ UNCHANGED target
  /\ BackupFrame

BackupStep ==
  \/ StartFullBackup("performScheduledBackup", FALSE)
  \/ StartFullBackup("performDailyFullBackup", TRUE)
  \/ \E force \in BOOLEAN : StartFullBackup("triggerManualBackup", force)
  \/ \E t \in Tables, force \in BOOLEAN : StartTableBackup(t, force)
  \/ BackupTables
  \/ BackupConnect
  \/ BackupExists
  \/ BackupDrop
  \/ BackupCreate
  \/ BackupSelect
  \/ BackupTruncate
  \/ BackupInsert
  \/ BackupRow
  \/ BackupReleasePrimary
  \/ BackupReleaseBackup

----------------------------------------------------------------------------
(* MonitoringService and the status endpoints *)

\* Ages of the last successful backup, in hours, that getLastBackupTime can
\* find; NoBackup when backup_info.backup_status has none or cannot be read.
NoBackup == 0 - 1
Ages == {NoBackup, 2, 6, 7, 24, 25}

\* backup_info.backup_status: absent, unreadable (permission denied) or
\* readable; hours: the age of its latest row with status 'success'
\* (NoBackup: no such row).
Ledgers ==
  {[state |-> st, hours |-> NoBackup] : st \in {"absent", "unreadable"}}
    \cup {[state |-> "readable", hours |-> h] : h \in Ages}

NoLedger == [state |-> "absent", hours |-> NoBackup]

\* private healthMetrics: BackupMetrics, before any collection
NoMetrics ==
  [healthStatus |-> "none", errors |-> {}, totalTables |-> 0, backedUpTables |-> 0,
   lastBackupTime |-> NoBackup, tableStatus |-> "empty"]

\* The queries of collectMetrics that can reject within its try block: the
\* two SELECT 1 of checkDatabaseConnections and the list of getAllPrimaryTables.
\* The count of getBackupTableCount has its own catch, which answers 0.
Rejections == {"none", "probe", "list", "count"}

BackedUp == Cardinality({t \in Tables : target[t].exists})
Total == Cardinality({t \in Tables : primary[t].exists})

\* getBackupTableCount: ... catch (error) { return 0 }
GetBackupTableCount(backedUp, fail) == IF fail = "count" THEN 0 ELSE backedUp

\* getBackupTableStatus: [] when the ledger is not there or cannot be read
GetBackupTableStatus(led) == IF led.state = "readable" THEN "rows" ELSE "empty"

\* A ledger that counts as out of date when it cannot be read.
GetLastBackupTimeStale(led) == IF led.state = "readable" THEN led.hours ELSE 25

\* getLastBackupTime: null when the ledger is not there, cannot be read or
\* has no row with status 'success'
GetLastBackupTime(led) == IF led.state = "readable" THEN led.hours ELSE NoBackup

\* coverage = total > 0 ? backedUp / total : 1;  coverage < 0.9
LowCoverage(total, backedUp) == total > 0 /\ backedUp * 10 < total * 9

\* The coverage check: its message and the status it leaves.
AfterCoverage(total, backedUp) ==
  IF LowCoverage(total, backedUp)
    THEN [healthStatus |-> "warning", errors |-> {"coverage"}]
    ELSE [healthStatus |-> "healthy", errors |-> {}]

\* A staleness check that never goes beyond a warning.
AfterStalenessLenient(st, hours) ==
  IF hours = NoBackup \/ hours <= 6 THEN st
  ELSE [healthStatus |-> "warning", errors |-> st.errors \cup {"stale"}]

\* A staleness check that is skipped once the coverage check has triggered.
AfterStalenessFirstFound(st, hours) ==
  IF st.healthStatus # "healthy" \/ hours = NoBackup \/ hours <= 6 THEN st
  ELSE [healthStatus |-> IF hours > 24 THEN "error" ELSE "warning",
        errors |-> st.errors \cup {"stale"}]

\* if (metrics.lastBackupTime) { if (hours > 24) ... else if (hours > 6) ... }
AfterStaleness(st, hours) ==
  IF hours = NoBackup THEN st
  ELSE IF hours > 24
    THEN [healthStatus |-> "error", errors |-> st.errors \cup {"stale"}]
  ELSE IF hours > 6
    THEN [healthStatus |-> IF st.healthStatus = "healthy" THEN "warning"
                           ELSE st.healthStatus,
          errors |-> st.errors \cup {"stale"}]
  ELSE st

\* collectMetrics: the BackupMetrics it returns.  fail: the query that
\* rejects; a rejection inside the try block gives the metrics of the catch,
\* whose message names what was thrown.
CollectMetrics(total, backedUp, led, fail) ==
  IF fail \in {"probe", "list"}
    THEN [healthStatus |-> "error", errors |-> {fail}, totalTables |-> 0,
          backedUpTables |-> 0, lastBackupTime |-> NoBackup, tableStatus |-> "empty"]
    ELSE LET count == GetBackupTableCount(backedUp, fail)
             last == GetLastBackupTime(led)
             st == AfterStaleness(AfterCoverage(total, count), last)
         IN [healthStatus |-> st.healthStatus, errors |-> st.errors,
             totalTables |-> total, backedUpTables |-> count,
             lastBackupTime |-> last, tableStatus |-> GetBackupTableStatus(led)]

\* IEEE 754 binary64, as JavaScript numbers are: a positive number is
\* m * 2^(e - 52) with m a mantissa of MantissaBits bits, written here as
\* the sequence of its bits, the leading one first; Zero is the number 0.
Zero == [m |-> <<>>, e |-> 0]

RECURSIVE Pow2(_)
Pow2(n) == IF n = 0 THEN 1 ELSE 2 * Pow2(n - 1)

\* The integer a sequence of bits writes, and the bits of an integer.
RECURSIVE ValueOf(_)
ValueOf(bits) ==
  IF bits = <<>> THEN 0 ELSE 2 * ValueOf(SubSeq(bits, 1, Len(bits) - 1)) + bits[Len(bits)]

RECURSIVE BitsOf(_)
BitsOf(n) == IF n = 0 THEN <<>> ELSE BitsOf(n \div 2) \o <<n % 2>>

\* bits + 1, for bits that are not all ones
RECURSIVE Incr(_)
Incr(bits) ==
  LET front == SubSeq(bits, 1, Len(bits) - 1) IN
  IF bits[Len(bits)] = 0 THEN front \o <<1>> ELSE Incr(front) \o <<0>>

\* Round to nearest, ties to even: the first MantissaBits bits of `bits`
\* (leading bit 1, of weight 2^e), what follows deciding the direction;
\* sticky: something nonzero lies beyond `bits`.
Round(bits, sticky, e) ==
  LET keep == SubSeq(bits, 1, MantissaBits)
      guard == bits[MantissaBits + 1] = 1
      rest == sticky \/ \E i \in (MantissaBits + 2)..Len(bits) : bits[i] = 1
      up == guard /\ (rest \/ keep[MantissaBits] = 1)
  IN IF ~up THEN [m |-> keep, e |-> e]
     ELSE IF \A i \in 1..MantissaBits : keep[i] = 1
       THEN [m |-> <<1>> \o [i \in 1..(MantissaBits - 1) |-> 0], e |-> e + 1]
     ELSE [m |-> Incr(keep), e |-> e]

\* The first n bits of r / d (1 <= r / d < 2), and what is left of r.
RECURSIVE DivBits(_, _, _)
DivBits(r, d, n) ==
  IF n = 0 THEN <<>>
  ELSE LET bit == IF r >= d THEN 1 ELSE 0
       IN <<bit>> \o DivBits((r - bit * d) * 2, d, n - 1)

RECURSIVE DivRem(_, _, _)
DivRem(r, d, n) ==
  IF n = 0 THEN r
  ELSE DivRem((r - (IF r >= d THEN d ELSE 0)) * 2, d, n - 1)

\* a / b in binary64, for integers a >= 0 and b > 0
Divide(a, b) ==
  IF a = 0 THEN Zero
  ELSE LET e == IF a >= b
                  THEN CHOOSE k \in 0..31 : b * Pow2(k) <= a /\ a < b * Pow2(k + 1)
                  ELSE 0 - (CHOOSE k \in 1..31 : a * Pow2(k) >= b /\ a * Pow2(k - 1) < b)
           r == IF e >= 0 THEN a ELSE a * Pow2(0 - e)
           d == IF e >= 0 THEN b * Pow2(e) ELSE b
       IN Round(DivBits(r, d, MantissaBits + 1), DivRem(r, d, MantissaBits + 1) # 0, e)

\* bits * k for a small integer k, from the last bit up
RECURSIVE MulCarry(_, _, _)
MulCarry(bits, k, carry) ==
  IF bits = <<>> THEN BitsOf(carry)
  ELSE LET v == bits[Len(bits)] * k + carry
           front == SubSeq(bits, 1, Len(bits) - 1)
       IN IF v % 2 = 0 THEN MulCarry(front, k, v \div 2) \o <<0>>
          ELSE MulCarry(front, k, v \div 2) \o <<1>>

\* x * k in binary64, for an integer k >= 2
Times(x, k) ==
  IF x = Zero THEN Zero
  ELSE LET p == MulCarry(x.m, k, 0)
       IN Round(p, FALSE, x.e + Len(p) - MantissaBits)

\* Math.round(x) for x >= 0: the nearest integer, a half going up
MathRound(x) ==
  IF x = Zero \/ x.e < 0 - 1 THEN 0
  ELSE IF x.e = 0 - 1 THEN 1
  ELSE ValueOf(SubSeq(x.m, 1, x.e + 1)) + x.m[x.e + 2]

\* metrics.totalTables > 0 ?
\*   Math.round((metrics.backedUpTables / metrics.totalTables) * 100) : 0
CoveragePercentage(totalTables, backedUpTables) ==
  IF totalTables > 0 THEN MathRound(Times(Divide(backedUpTables, totalTables), 100)) ELSE 0

NoReply ==
  [backup_health |-> "none", total_tables |-> 0, backed_up_tables |-> 0,
   coverage_percentage |-> 0, errors |-> {}]

\* GET /monitoring/metrics: the data of the answer, from fresh metrics over
\* `total` tables in the primary and `backedUp` tables in the target
GetMetrics(total, backedUp) ==
  /\ ticks > 0
  /\ ticks' = ticks - 1
  /\ \E fail \in Rejections :
       /\ IF fail = "none" THEN NoFault ELSE Fault
       /\ LET metrics == CollectMetrics(total, backedUp, ledger, fail)
          IN reply' = [backup_health |-> metrics.healthStatus,
                       total_tables |-> metrics.totalTables,
                       backed_up_tables |-> metrics.backedUpTables,
                       coverage_percentage |->
                         CoveragePercentage(metrics.totalTables, metrics.backedUpTables),
                       errors |-> metrics.errors]
  /\ UNCHANGED <<isMonitoring, primary, target, cyc, sync, bk, healthMetrics, ledger, sql, ddl, bind, status,
                 lastRead, outcome>>

PerformHealthCheckResult(threw) == "returned"
GenerateDailyReportResult(threw) == "returned"
GetHealthResult(threw) == "returned"
GetHealthStatusResult(threw) == "returned"
GetBackupStatusResult(threw) == "returned"

\* A request or a timer whose handler runs without touching the tables.
Request ==
  /\ ticks > 0
  /\ ticks' = ticks - 1
  /\ UNCHANGED <<isMonitoring, primary, target, cyc, sync, bk, ledger, reply, sql, ddl, bind, status, lastRead>>

\* @Cron(EVERY_5_MINUTES) performHealthCheck: collectMetrics never throws
PerformHealthCheck ==
  /\ Request
  /\ \E fail \in Rejections :
       /\ IF fail = "none" THEN NoFault ELSE Fault
       /\ healthMetrics' = CollectMetrics(Total, BackedUp, ledger, fail)
  /\ Returned("performHealthCheck", PerformHealthCheckResult(FALSE))

\* @Cron('0 6 * * *') generateDailyReport: getDetailedReport guards every
\* query it makes
GenerateDailyReport ==
  /\ Request
  /\ \/ NoFault
     \/ Fault
  /\ UNCHANGED healthMetrics
  /\ Returned("generateDailyReport", GenerateDailyReportResult(FALSE))

\* GET /monitoring/health: MonitoringService.getHealthStatus collects the
\* metrics when no health check has stored any
GetHealth ==
  /\ Request
  /\ \/ /\ healthMetrics = NoMetrics
        /\ \E fail \in Rejections :
             /\ IF fail = "none" THEN NoFault ELSE Fault
             /\ healthMetrics' = CollectMetrics(Total, BackedUp, ledger, fail)
     \/ /\ healthMetrics # NoMetrics
        /\ NoFault
        /\ UNCHANGED healthMetrics
  /\ Returned("getHealth", GetHealthResult(FALSE))

\* GET /cdc/health: CdcService.getHealthStatus; a rejected connect is
\* reported in the answer, a rejected release is caught by the outer try
GetHealthStatus ==
  /\ Request
  /\ \/ NoFault
     \/ Fault
  /\ UNCHANGED healthMetrics
  /\ Returned("getHealthStatus", GetHealthStatusResult(FALSE))

\* GET /backup/status: BackupService.getBackupStatus logs and rethrows what
\* a query throws; the controller answers {success: false, ...}
\* The answer getBackupStatus starts from.
EmptyStatus(primaryTables) ==
  [total_tables |-> Len(primaryTables), backed_up_tables |-> 0, missing_tables |-> <<>>,
   table_stats |-> <<>>]

\* A loop body that counts a table whether or not it is in the target.
TableStatusCountsAll(st, table, exists, count) ==
  IF exists
    THEN [st EXCEPT !.backed_up_tables = @ + 1,
                    !.table_stats = Append(@, [table_name |-> table, row_count |-> count])]
    ELSE [st EXCEPT !.backed_up_tables = @ + 1, !.missing_tables = Append(@, table)]

\* The body of the loop of getBackupStatus for one table.
TableStatus(st, table, exists, count) ==
  IF exists
    THEN [st EXCEPT !.backed_up_tables = @ + 1,
                    !.table_stats = Append(@, [table_name |-> table, row_count |-> count])]
    ELSE [st EXCEPT !.missing_tables = Append(@, table)]

\* for (const table of primaryTables), from the i-th table on
RECURSIVE BackupStatusFrom(_, _, _)
BackupStatusFrom(st, primaryTables, i) ==
  IF i > Len(primaryTables) THEN st
  ELSE LET t == primaryTables[i] IN
       BackupStatusFrom(TableStatus(st, t, target[t].exists, BagCardinality(target[t].rows)),
                        primaryTables, i + 1)

NoStatus == [runner |-> "none", threw |-> FALSE, result |-> EmptyStatus(<<>>)]

\* getBackupStatus(): the list of the primary, a runner on the target, one
\* existence query and one count per table, the release of the runner, the
\* answer.  A rejection of any round trip is logged and thrown; the release
\* is the last statement of the try block.
GetBackupStatus ==
  /\ ticks > 0
  /\ ticks' = ticks - 1
  /\ \/ /\ NoFault
        /\ status' = [runner |-> "released", threw |-> FALSE,
                      result |-> BackupStatusFrom(EmptyStatus(AllTables), AllTables, 1)]
        /\ Returned("getBackupStatus", GetBackupStatusResult(FALSE))
     \/ /\ Fault
        /\ \E at \in {"list", "connect", "exists", "count"} :
             /\ at = "exists" => AllTables # <<>>
             /\ at = "count" => \E t \in Tables : primary[t].exists /\ target[t].exists
             /\ status' = [runner |-> IF at \in {"exists", "count"} THEN "connected"
                                      ELSE "none",
                           threw |-> TRUE, result |-> EmptyStatus(<<>>)]
        /\ Returned("getBackupStatus", GetBackupStatusResult(TRUE))
  /\ UNCHANGED <<isMonitoring, primary, target, cyc, sync, bk, healthMetrics, ledger, reply,
                 sql, ddl, bind, lastRead>>

----------------------------------------------------------------------------
(* Specifications *)

\* What the steps of a specification without full backups start from.
Quiet ==
  /\ isMonitoring = FALSE
  /\ cyc = [c \in Slots |-> IdleCycle]
  /\ sync = [c \in {ForceSlot} \cup Slots |-> [t \in Tables |-> IdleSync]]
  /\ bk = IdleBackup
  /\ healthMetrics = NoMetrics
  /\ reply = NoReply
  /\ sql = NoSql
  /\ ddl = NoDdl
  /\ bind = NoBind
  /\ status = NoStatus
  /\ lastRead = [t \in Tables |-> 0]
  /\ outcome = [e \in EntryPoints |-> "none"]

NoTable == [exists |-> FALSE, col |-> "none", pk |-> FALSE, rows |-> {}]

\* SpecCycles: one run of the cycle at a time over up to NumTables tables,
\* each with a key, the updateat column and one row; their copies in the
\* target exist and are empty.
InitCycles ==
  /\ Quiet
  /\ ledger = NoLedger
  /\ \E n \in 1..NumTables :
       /\ primary = [t \in Tables |->
                      IF t <= n THEN [exists |-> TRUE, col |-> "updateat", pk |-> TRUE,
                                      rows |-> {Row(1, 1)}]
                      ELSE NoTable]
       /\ target = [t \in Tables |-> [exists |-> t <= n, pk |-> t <= n, rows |-> EmptyBag]]
  /\ faults = MaxFaults
  /\ ticks = MaxTicks

NextCycles ==
  \/ OnModuleInit
  \/ CycleStep(1)

SpecCycles == InitCycles /\ [][NextCycles]_vars

\* SpecOverlap: the timer fires whether or not the previous run has ended;
\* up to OverlapTables tables, no database failure.
InitOverlap ==
  /\ Quiet
  /\ ledger = NoLedger
  /\ \E n \in 1..OverlapTables :
       /\ primary = [t \in Tables |->
                      IF t <= n THEN [exists |-> TRUE, col |-> "updateat", pk |-> TRUE,
                                      rows |-> {Row(1, 1)}]
                      ELSE NoTable]
       /\ target = [t \in Tables |-> [exists |-> t <= n, pk |-> t <= n, rows |-> EmptyBag]]
  /\ faults = 0
  /\ ticks = MaxTicks

NextOverlap ==
  \/ OnModuleInit
  \/ \E c \in Slots : CycleStep(c)

SpecOverlap == InitOverlap /\ [][NextOverlap]_vars

\* SpecTable: one table of TableRows rows, with or without a key; its copy
\* in the target is missing, empty or in step.  Detection cycles, full and
\* manual backups, force syncs and the status endpoints run side by side.
TableData == {Row(i, Min(i, TableRows - 1)) : i \in 1..TableRows}

InitTable ==
  /\ Quiet
  /\ ledger = NoLedger
  /\ \E pk \in BOOLEAN :
       /\ primary = [t \in Tables |->
                      IF t = 1 THEN [exists |-> TRUE, col |-> "updateat", pk |-> pk,
                                     rows |-> TableData]
                      ELSE NoTable]
       /\ \E copy \in {Dropped,
                       [exists |-> TRUE, pk |-> pk, rows |-> EmptyBag],
                       [exists |-> TRUE, pk |-> pk, rows |-> SetToBag(TableData)]} :
            target = [t \in Tables |-> IF t = 1 THEN copy ELSE Dropped]
  /\ faults = MaxFaults
  /\ ticks = MaxTicks

NextTable1 ==
  \/ OnModuleInit
  \/ CycleStep(1)
  \/ \E t \in Tables : ForceStep(t)
  \/ BackupStep
  \/ PerformHealthCheck
  \/ GenerateDailyReport
  \/ GetHealth
  \/ GetHealthStatus
  \/ GetBackupStatus

SpecTable == InitTable /\ [][NextTable1]_vars

\* SpecBackup: full and manual backups alone, one after the other, over up
\* to FullTables tables of two rows, with or without a key; each copy in the
\* target is missing, empty or holds an older version of the first row and
\* a row that is gone from the primary.
BackupData == {Row(1, 1), Row(2, 2)}

StaleData == {Row(1, 0), Row(3, 0)}

InitBackup ==
  /\ Quiet
  /\ ledger = NoLedger
  /\ \E n \in 1..FullTables, pk \in BOOLEAN :
       /\ primary = [t \in Tables |->
                      IF t <= n THEN [exists |-> TRUE, col |-> "updateat", pk |-> pk,
                                      rows |-> BackupData]
                      ELSE NoTable]
       /\ \E copy \in [1..n -> {Dropped,
                                 [exists |-> TRUE, pk |-> pk, rows |-> EmptyBag],
                                 [exists |-> TRUE, pk |-> pk, rows |-> SetToBag(StaleData)]}] :
            target = [t \in Tables |-> IF t <= n THEN copy[t] ELSE Dropped]
  /\ faults = BackupFaults
  /\ ticks = MaxTicks

NextBackup == BackupStep

SpecBackup == InitBackup /\ [][NextBackup]_vars

\* SpecHealth: the health checks alone, over every number of tables in the
\* primary and in the target and every state of the ledger.
InitHealth ==
  /\ Quiet
  /\ ledger \in Ledgers
  /\ \E n \in 0..NumTables, m \in 0..NumTables :
       /\ primary = [t \in Tables |->
                      IF t <= n THEN [exists |-> TRUE, col |-> "updateat", pk |-> TRUE,
                                      rows |-> {}]
                      ELSE NoTable]
       /\ target = [t \in Tables |-> [exists |-> t <= m, pk |-> t <= m, rows |-> EmptyBag]]
  /\ faults = MaxFaults
  /\ ticks = MaxTicks

NextHealth ==
  \/ PerformHealthCheck
  \/ GenerateDailyReport
  \/ GetHealth

SpecHealth == InitHealth /\ [][NextHealth]_vars

\* SpecCoverage: the health checks and the status endpoint, over every set of tables in the
\* primary and every set of tables in the target, without a ledger.
InitCoverage ==
  /\ Quiet
  /\ ledger = NoLedger
  /\ \E inPrimary \in SUBSET Tables, inTarget \in SUBSET Tables :
       /\ primary = [t \in Tables |->
                      IF t \in inPrimary
                        THEN [exists |-> TRUE, col |-> "updateat", pk |-> TRUE, rows |-> {}]
                        ELSE NoTable]
       /\ target = [t \in Tables |->
                     [exists |-> t \in inTarget, pk |-> t \in inTarget, rows |-> EmptyBag]]
  /\ faults = MaxFaults
  /\ ticks = MaxTicks

NextCoverage ==
  \/ NextHealth
  \/ GetBackupStatus

SpecCoverage == InitCoverage /\ [][NextCoverage]_vars

\* SpecMetrics: one request of the metrics endpoint, over every number of
\* tables up to MaxCount in the primary and in the target.
InitMetrics ==
  /\ Quiet
  /\ ledger = NoLedger
  /\ primary = [t \in Tables |-> NoTable]
  /\ target = [t \in Tables |-> Dropped]
  /\ faults = MaxFaults
  /\ ticks = 1

NextMetrics == \E total \in 0..MaxCount, backedUp \in 0..MaxCount : GetMetrics(total, backedUp)

SpecMetrics == InitMetrics /\ [][NextMetrics]_vars

\* SpecNames: detection cycles over one table of one row whose timestamp
\* column has any of the names the discovery query selects; its copy in the
\* target exists, with the same column, and is empty.
ColumnNames == {"updateat", "updated_at", "modified", "last_modified", "last_updated"}

InitNames ==
  /\ Quiet
  /\ ledger = NoLedger
  /\ \E col \in ColumnNames :
       primary = [t \in Tables |->
                   IF t = 1 THEN [exists |-> TRUE, col |-> col, pk |-> TRUE,
                                  rows |-> {Row(1, 1)}]
                   ELSE NoTable]
  /\ target = [t \in Tables |-> [exists |-> t = 1, pk |-> t = 1, rows |-> EmptyBag]]
  /\ faults = MaxFaults
  /\ ticks = MaxTicks

NextNames ==
  \/ OnModuleInit
  \/ CycleStep(1)

SpecNames == InitNames /\ [][NextNames]_vars

\* SpecStatement: processBatch over batches of up to BatchRecords records
\* selected from one table (the records of a batch have the same keys),
\* every set of target columns and every key of the target.
Columns == {"id", "tenant", "val", "note"}

InitStatement ==
  /\ Quiet
  /\ ledger = NoLedger
  /\ primary = [t \in Tables |-> NoTable]
  /\ target = [t \in Tables |-> Dropped]
  /\ faults = 0
  /\ ticks = 1

NextStatement ==
  \E keys \in SUBSET Columns \ {{}}, n \in 1..BatchRecords,
     tableSchema \in SUBSET Columns :
    \E pkColumns \in SUBSET tableSchema :
      ProcessBatch([i \in 1..n |-> keys], tableSchema, pkColumns)

SpecStatement == InitStatement /\ [][NextStatement]_vars

\* SpecSchema: one creation of a missing table, by the cycle
\* (handleMissingBackupTable) or by a backup (createTableInBackup), for
\* every set of columns, with or without the enum type on the target, and
\* every way its round trips reject.
InitSchema ==
  /\ Quiet
  /\ ledger = NoLedger
  /\ primary = [t \in Tables |-> NoTable]
  /\ target = [t \in Tables |-> Dropped]
  /\ faults = 0
  /\ ticks = 1

NextSchema ==
  \E service \in {"cdc", "backup"}, cols \in SUBSET ColumnKinds \ {{}},
     enums \in SUBSET {"mood"}, existed \in BOOLEAN, r \in RoundTrips :
    CreateSchema(service, cols, enums, existed, r)

SpecSchema == InitSchema /\ [][NextSchema]_vars

\* SpecCoerce: one string of up to MaxChars characters, coerced for a
\* column of each type.
InitCoerce ==
  /\ Quiet
  /\ ledger = NoLedger
  /\ primary = [t \in Tables |-> NoTable]
  /\ target = [t \in Tables |-> Dropped]
  /\ faults = 0
  /\ ticks = 1

NextCoerce ==
  /\ ticks > 0
  /\ \E n \in 0..MaxChars :
       \E value \in [1..n -> Chars], dataType \in DataTypes : Coerce(value, dataType)

SpecCoerce == InitCoerce /\ [][NextCoerce]_vars

\* SpecPage: one table of PageRows rows, more than a page, the last rows
\* sharing their updateat; the primary has stopped changing, no database
\* failure, and the timer fires for ever.
PageData == {Row(i, Min(i, PageLimit)) : i \in 1..PageRows}

InitPage ==
  /\ Quiet
  /\ ledger = NoLedger
  /\ primary = [t \in Tables |->
                 IF t = 1 THEN [exists |-> TRUE, col |-> "updateat", pk |-> TRUE,
                                rows |-> PageData]
                 ELSE NoTable]
  /\ target = [t \in Tables |-> [exists |-> t = 1, pk |-> t = 1, rows |-> EmptyBag]]
  /\ faults = 0
  /\ ticks = 0 - 1

NextPage ==
  \/ OnModuleInit
  \/ CycleStep(1)

\* The scheduler and the event loop keep running: a step that can be taken
\* is taken.
SpecPage == InitPage /\ [][NextPage]_vars /\ WF_vars(NextPage)

\* SpecForce: forceSyncTable has just been called for one table of TableRows
\* rows with a key, whose copy in the target is empty; the primary has
\* stopped changing, one database round trip may reject, and the timer of
\* the detection cycle fires for ever.
InitForce ==
  /\ isMonitoring = FALSE
  /\ cyc = [c \in Slots |-> IdleCycle]
  /\ sync = [c \in {ForceSlot} \cup Slots |->
              [t \in Tables |-> IF c = ForceSlot /\ t = 1 THEN StartedSync ELSE IdleSync]]
  /\ bk = IdleBackup
  /\ healthMetrics = NoMetrics
  /\ reply = NoReply
  /\ sql = NoSql
  /\ ddl = NoDdl
  /\ bind = NoBind
  /\ status = NoStatus
  /\ lastRead = [t \in Tables |-> 0]
  /\ outcome = [e \in EntryPoints |-> "none"]
  /\ ledger = NoLedger
  /\ primary = [t \in Tables |->
                 IF t = 1 THEN [exists |-> TRUE, col |-> "updateat", pk |-> TRUE,
                                rows |-> TableData]
                 ELSE NoTable]
  /\ target = [t \in Tables |-> [exists |-> t = 1, pk |-> t = 1, rows |-> EmptyBag]]
  /\ faults = MaxFaults
  /\ ticks = 0 - 1

NextForce ==
  \/ OnModuleInit
  \/ CycleStep(1)
  \/ SyncConnect(ForceSlot, 1)
  \/ ForceCheck(1)
  \/ ForceSelect(1)
  \/ SyncSchema(ForceSlot, 1)
  \/ SyncRow(ForceSlot, 1)
  \/ SyncReleasePrimary(ForceSlot, 1)
  \/ SyncReleaseBackup(ForceSlot, 1)

SpecForce == InitForce /\ [][NextForce]_vars /\ WF_vars(NextForce)

----------------------------------------------------------------------------
(* Properties *)

Runs == {ForceSlot} \cup Slots

Running(c) == ~FreeSlot(c)

\* The syncTableChanges calls in flight.
InFlight ==
  {ct \in Slots \X Tables : sync[ct[1]][ct[2]].pc \notin {"idle", "done"}}

Holds(r) == r.pR = "connected" \/ r.bR = "connected"

\* Every row of the primary is in the target.
InStep(t) == primary[t].rows \subseteq BagToSet(target[t].rows)

\* upsertRecords: processBatch over the records in their order, the key as
\* getPrimaryKeyColumns reports it.
RECURSIVE UpsertRecords(_, _, _)
UpsertRecords(T, hasPk, B) ==
  IF B = {} THEN T
  ELSE LET r == CHOOSE x \in First(B) : TRUE
       IN UpsertRecords(ProcessRow(T, hasPk, hasPk, r), hasPk, B \ {r})

\* C1: for every table, the watermark a detection cycle reads is greater
\* than or equal to the one the previous detection cycle read for the table,
\* whatever cycles, backups and force syncs ran in between.
WatermarkMonotonic == [][\A t \in Tables : lastRead'[t] >= lastRead[t]]_vars

\* C2: a run of the detection cycle is never re-entered by the next tick:
\* at most one run of monitorChanges is in progress.
NoReentry == Cardinality({c \in Slots : Running(c)}) <= 1

\* C3: at every moment at most 3 calls of syncTableChanges are in flight.
AtMostThreeInFlight == Cardinality(InFlight) <= concurrencyLimit

\* C4: when syncTableChanges, forceSyncTable or backupTable has ended, on
\* whatever path, no query runner it created is still connected.
RunnersReleased ==
  /\ \A c \in Runs, t \in Tables : sync[c][t].pc = "done" => ~Holds(sync[c][t])
  /\ bk.pc = "done" => ~Holds(bk)

\* A cycle that has ended has run the sync of every table of its list to
\* its end, whatever the syncs of the other tables threw.
OthersSynced ==
  \A c \in Slots :
    cyc[c].pc = "done" =>
      \A j \in 1..Len(cyc[c].tables) : sync[c][cyc[c].tables[j]].pc = "done"

\* Every cycle works on the full list: a table whose sync failed in the
\* cycle before is on it again.
Relisted == \A c \in Slots : cyc[c].pc = "run" => cyc[c].tables = TablesWithTimestamp

Converges == <>(\A t \in Tables : primary[t].exists => InStep(t))

\* C7: in a table's sync, every pulled row whose updateat is below the
\* watermark of the target is in the target: the rows applied are a prefix
\* of the batch.
AppliedPrefix ==
  \A c \in Slots, t \in Tables :
    sync[c][t].pc \in {"rows", "relP", "relB", "done"} =>
      \A r \in sync[c][t].page :
        r.ts < Watermark(target[t].rows) => r \in BagToSet(target[t].rows)

\* C8: applying a batch to a target table that is in step a second time
\* leaves what applying it once leaves, with or without a primary key.
UpsertIdempotent ==
  \A t \in Tables :
    target[t].exists /\ InStep(t) =>
      LET once == UpsertRecords(target[t].rows, target[t].pk, primary[t].rows)
      IN UpsertRecords(once, target[t].pk, primary[t].rows) = once

\* C9: a rejected row does not end the batch: of the n rows of a batch, k of
\* them rejected, n - k are written, in processBatch and in
\* insertRowsIndividually, and the operation does not throw for it.
RowIsolation ==
  /\ \A c \in Runs, t \in Tables :
       LET s == sync[c][t] IN
       /\ s.pc = "rows" => s.wrote + s.errs + Cardinality(s.todo) = Cardinality(s.page)
       /\ (s.pc \in {"relP", "relB", "done"} /\ s.wrote + s.errs > 0) =>
            /\ s.todo = {}
            /\ s.wrote = Cardinality(s.page) - s.errs
            /\ ~s.failed
  /\ bk.pc = "rows" => ~bk.exc
  /\ (bk.pc = "relP" /\ ~bk.exc) => bk.todo = {}

\* A detection cycle's sync has ended: one of its three rows was rejected,
\* the other two were written.
OneRowRejected ==
  /\ sync[1][1].pc = "done"
  /\ sync[1][1].errs = 1
  /\ sync[1][1].wrote = TableRows - 1

\* C10: whatever the database rejects, no scheduled job and no trigger lets
\* an exception out.
AlwaysReturns == \A e \in EntryPoints : outcome[e] # "threw"

\* A manual backup of one table has thrown in backupTable and the
\* controller has answered.
ManualBackupFailed ==
  /\ bk.pc = "done"
  /\ bk.entry = "triggerManualBackup"
  /\ bk.single
  /\ bk.exc
  /\ outcome["triggerManualBackup"] = "returned"

\* A full backup that went through its list of tables.
FullBackupDone == bk.pc = "done" /\ ~bk.single /\ bk.tables # <<>>

\* C11: performFullBackup attempts every table of the list: when it ends,
\* every listed table has been backed up or has failed and been logged, and
\* no table's failure is thrown out of the run.
EveryTableAttempted ==
  FullBackupDone =>
    /\ \A j \in 1..Len(bk.tables) : bk.res[bk.tables[j]] # "none"
    /\ ~bk.exc
    /\ outcome[bk.entry] # "threw"

\* A full backup whose first table failed and whose last table was copied.
FirstFailedLastCopied ==
  /\ FullBackupDone
  /\ Len(bk.tables) > 1
  /\ bk.res[bk.tables[1]] = "threw"
  /\ bk.res[bk.tables[Len(bk.tables)]] = "done"
  /\ InStep(bk.tables[Len(bk.tables)])

\* backupTable(t, forceRecreate) has returned without throwing.
Completed(t, forceRecreate) == bk.force = forceRecreate /\ bk.res[t] = "done"

\* C12 (as stated): after a forced backupTable that completed without error
\* the target table holds every row of the primary table and no other row.
ForcedReloadExact ==
  \A t \in Tables :
    Completed(t, TRUE) => target[t].exists /\ target[t].rows = SetToBag(primary[t].rows)

\* C12 (amended): after a forced backupTable that completed without error
\* the target table holds, once each, the rows of the primary table whose
\* row-by-row insert was not rejected, and no other row.
ForcedReloadButRejected ==
  \A t \in Tables :
    Completed(t, TRUE) =>
      /\ target[t].exists
      /\ target[t].rows = SetToBag(primary[t].rows \ bk.rej[t])

\* A forced full backup went through two tables: one was reloaded whole,
\* the other had a row rejected and holds the rest.
ForcedReloadOneRowShort ==
  \E t, u \in Tables :
    /\ bk.pc = "done"
    /\ Completed(t, TRUE) /\ bk.rej[t] = {}
    /\ target[t].rows = SetToBag(primary[t].rows) /\ primary[t].rows # {}
    /\ Completed(u, TRUE) /\ bk.rej[u] # {}
    /\ target[u].rows = SetToBag(primary[u].rows \ bk.rej[u]) /\ target[u].rows # EmptyBag

\* C13: after an unforced backupTable that completed without error, with no
\* statement rejected, on a table with a primary key, the target holds every
\* primary row with the primary's current values, also where it held an
\* older version of the row before.
UnforcedMergeCurrent ==
  \A t \in Tables :
    (Completed(t, FALSE) /\ faults = BackupFaults /\ primary[t].pk) => InStep(t)

\* C14: while a backup without forceRecreate runs, no step of it drops a
\* target table that exists or takes a row out of one: every table stays and
\* holds at least the copies of every row it held before the step.
UnforcedKeepsRows ==
  [][~bk.force =>
       \A t \in Tables :
         target[t].exists => target'[t].exists /\ target[t].rows \sqsubseteq target'[t].rows]_vars

\* An unforced backup went through over a stale copy: the row that is gone
\* from the primary and the old version of the first row are still there,
\* next to a row the backup has added.
UnforcedBackupOverStaleCopy ==
  \E t \in Tables :
    /\ Completed(t, FALSE)
    /\ StaleData \subseteq BagToSet(target[t].rows)
    /\ StaleData \cap primary[t].rows = {}
    /\ BagToSet(target[t].rows) \cap primary[t].rows # {}

\* C15: the schema step on a target table that exists, without a forced
\* recreate and with its existence check answered, goes straight on: in
\* backupTable to the SELECT, in syncTableChanges to the column checks; it
\* leaves the target as it is and raises no error, however often it runs.
SchemaStepIdempotent ==
  [][/\ (/\ bk.pc = "exists" /\ bk'.pc # "exists"
         /\ target[BkTable].exists /\ ~bk.force /\ faults' = faults)
        => (bk'.pc = "select" /\ ~bk'.exc /\ target' = target)
     /\ \A c \in Slots, t \in Tables :
          (/\ sync[c][t].pc = "check" /\ sync'[c][t].pc # "check"
           /\ primary[t].exists /\ target[t].exists /\ faults' = faults)
          => (/\ target' = target
              /\ sync'[c][t].pc \in {"read", "relP"}
              /\ ~sync'[c][t].failed /\ ~sync'[c][t].threw)]_vars

\* The schema step of a second unforced backup has passed over the table
\* the first one left: the copy is as it was at the start.
SchemaStepRanTwice ==
  /\ bk.pc = "select" /\ ~bk.force
  /\ outcome["triggerManualBackup"] = "returned"
  /\ ticks = 0 /\ faults = MaxFaults
  /\ target[BkTable].exists /\ target[BkTable].pk
  /\ target[BkTable].rows = SetToBag(TableData)

\* C16: when the first detection cycle has ended, nothing else having run
\* and no statement rejected, every primary table with a primary key and
\* the updateat column has its table in the target, with all its rows, and
\* the watermark is the greatest updateat of those rows.
FirstCycleCopiesAll ==
  (cyc[1].pc = "done" /\ ticks = MaxTicks - 1 /\ faults = MaxFaults) =>
    \A t \in Tables :
      (primary[t].exists /\ primary[t].pk /\ HasUpdateAt(t)) =>
        /\ target[t].exists
        /\ InStep(t)
        /\ Watermark(target[t].rows) = MaxTs(primary[t].rows)

\* C17: a detection cycle hands rows to the upsert for a table only when
\* some primary row has an updateat above the watermark of the target: with
\* no such row the cycle copies nothing.
NoChangeNoCopy ==
  \A c \in Slots, t \in Tables :
    sync[c][t].pc = "schema" => Changed(primary[t].rows, Watermark(target[t].rows)) # {}

\* The age of the last successful backup the ledger shows (NoBackup: none).
Age == IF ledger.state = "readable" THEN ledger.hours ELSE NoBackup

\* Fewer than nine in ten of the primary's tables are counted in the target.
Uncovered ==
  healthMetrics.totalTables > 0
    /\ healthMetrics.backedUpTables * 10 < healthMetrics.totalTables * 9

\* 'error' on a failure or a backup older than 24 hours, else 'warning' on
\* low coverage or a backup older than 6 hours, else 'healthy'.
Classification(failed) ==
  IF failed \/ Age > 24 THEN "error"
  ELSE IF Uncovered \/ Age > 6 THEN "warning"
  ELSE "healthy"

\* C18 (as stated): the status collectMetrics reports is 'error' if a
\* connection probe failed or the last backup is more than 24 hours old,
\* otherwise 'warning' if the coverage is below 0.9 or the last backup is
\* more than 6 hours old, otherwise 'healthy'.
HealthClassified ==
  healthMetrics # NoMetrics =>
    healthMetrics.healthStatus = Classification("probe" \in healthMetrics.errors)

\* C18 (amended): as above, with 'error' also when the list of the primary
\* tables could not be read.
HealthClassifiedAnyRejection ==
  healthMetrics # NoMetrics =>
    healthMetrics.healthStatus =
      Classification(healthMetrics.errors \cap {"probe", "list"} # {})

\* Full coverage and a last backup 7 hours old: 'warning'.
SevenHoursWarning ==
  /\ healthMetrics.healthStatus = "warning"
  /\ Age = 7
  /\ healthMetrics.totalTables > 0
  /\ ~Uncovered

\* healthy < warning < error
Severity(h) == CASE h = "error" -> 2 [] h = "warning" -> 1 [] OTHER -> 0

\* C19: when collectMetrics gets through its queries, the coverage check and
\* the staleness check each leave their message exactly when they trigger,
\* and the status is the greater of the two severities.
ChecksIndependent ==
  (healthMetrics # NoMetrics /\ healthMetrics.errors \cap {"probe", "list"} = {}) =>
    LET cov == IF Uncovered THEN 1 ELSE 0
        stale == IF Age > 24 THEN 2 ELSE IF Age > 6 THEN 1 ELSE 0
    IN /\ "coverage" \in healthMetrics.errors <=> Uncovered
       /\ "stale" \in healthMetrics.errors <=> Age > 6
       /\ Severity(healthMetrics.healthStatus) = IF cov > stale THEN cov ELSE stale

\* Low coverage and a last backup 25 hours old: both messages, 'error'.
BothChecksTriggered ==
  /\ Uncovered
  /\ Age = 25
  /\ healthMetrics.errors = {"coverage", "stale"}
  /\ healthMetrics.healthStatus = "error"

\* C20: with the ledger absent or unreadable collectMetrics still returns
\* its metrics, with no per-table status and no last backup time, without
\* the staleness message, and with 'error' only when a probe or the list of
\* the primary tables failed.
LedgerOptional ==
  ledger.state # "readable" =>
    /\ outcome["performHealthCheck"] = "returned" => healthMetrics # NoMetrics
    /\ healthMetrics.tableStatus = "empty"
    /\ healthMetrics.lastBackupTime = NoBackup
    /\ "stale" \notin healthMetrics.errors
    /\ healthMetrics.healthStatus = "error" =>
         healthMetrics.errors \cap {"probe", "list"} # {}

\* A health check over an unreadable ledger reported 'healthy'.
HealthyWithoutLedger ==
  /\ ledger.state = "unreadable"
  /\ outcome["performHealthCheck"] = "returned"
  /\ healthMetrics.healthStatus = "healthy"
  /\ healthMetrics.totalTables > 0

\* C21: the coverage_percentage of the metrics answer is backed_up_tables
\* / total_tables * 100 rounded to the nearest integer, a half going up.
CoverageRoundedHalfUp ==
  reply.total_tables > 0 =>
    reply.coverage_percentage =
      (200 * reply.backed_up_tables + reply.total_tables) \div (2 * reply.total_tables)

\* C22: when forceSyncTable answers success, the recordsProcessed of its
\* answer is the number of rows it wrote to the target, at most ForceLimit.
ForceSyncCountsWritten ==
  \A t \in Tables :
    LET s == sync[ForceSlot][t] IN
    (s.pc = "done" /\ ForceSyncAnswer(s).success) =>
      /\ ForceSyncAnswer(s).recordsProcessed = s.wrote
      /\ ForceSyncAnswer(s).recordsProcessed <= ForceLimit

\* C23: the caller of a full backup is told of every table whose backup
\* failed: when the backup of some table of the run threw, the answer the
\* caller receives is not a plain success.
BatchFailuresReported ==
  (FullBackupDone /\ bk.entry = "triggerManualBackup") =>
    ((\E t \in Tables : bk.res[t] = "threw") => ~TriggerManualBackupAnswer(bk.exc).success)

\* C24: the batch a detection cycle has pulled for a table is the first
\* PageLimit, by updateat, of the primary rows whose updateat is above the
\* greatest updateat stored in the target (0 for an empty target).
BatchAboveTargetMax ==
  \A c \in Slots, t \in Tables :
    sync[c][t].pc = "schema" =>
      sync[c][t].page \in Pages(Changed(primary[t].rows, Watermark(target[t].rows)), PageLimit)

DiscoveredTableSynced ==
  (cyc[1].pc = "done" /\ faults = MaxFaults) =>
    \A t \in Tables :
      (primary[t].exists /\ TimestampLike(primary[t].col) /\ target[t].exists) => InStep(t)

\* C27: every statement processBatch builds has the form the target's key
\* fixes: with a key, ON CONFLICT on all the key columns, updating every
\* other column of the statement (DO NOTHING when there is none); without a
\* key, ON CONFLICT DO NOTHING with no conflict target.
StatementByKey ==
  \A i \in DOMAIN sql.statements :
    LET s == sql.statements[i] IN
    IF sql.pkColumns # {}
      THEN /\ s.clause = "onConflictTarget"
           /\ s.conflictTarget = sql.pkColumns
           /\ s.updateSet = s.columns \ sql.pkColumns
      ELSE s.clause = "onConflict" /\ s.conflictTarget = {}

\* C28: the columns of the statement built for a record are the record's
\* keys that are columns of the target; a record gets no statement only
\* when none of its keys is a column of the target, and then with a warning.
ColumnsIntersected ==
  /\ \A i \in DOMAIN sql.statements :
       sql.statements[i].columns = sql.records[i] \cap sql.tableSchema
  /\ \A i \in DOMAIN sql.records :
       i \notin DOMAIN sql.statements <=> sql.records[i] \cap sql.tableSchema = {}
  /\ sql.warned <=> (sql.records # <<>> /\ sql.statements = <<>>)

\* A batch of two records with a key the target does not know: both got
\* their statement, without that column.
UnknownColumnDropped ==
  /\ Len(sql.records) = BatchRecords
  /\ Len(sql.statements) = BatchRecords
  /\ \A i \in DOMAIN sql.statements :
       /\ sql.records[i] \ sql.tableSchema # {}
       /\ sql.statements[i].columns # {}
       /\ sql.statements[i].columns \cap (sql.records[i] \ sql.tableSchema) = {}

\* C29: a creation starts with the replay; a step runs only after the one
\* before it rejected (the retry, after the copy of the enum types); when the replay rejected for a missing type, the
\* generic builder runs only after the enum types were copied, and after a
\* copy that went through only after the one retry of the replay.
LadderOrdered ==
  LET s == ddl.steps
      Ran(step) == {i \in DOMAIN s : s[i].step = step} IN
  /\ s # <<>> => s[1].step = "replay"
  /\ \A i \in DOMAIN s :
       i > 1 => \/ s[i - 1].why # "none"
                \/ s[i - 1].step = "copyEnumTypes" /\ s[i].step = "retry"
  /\ Cardinality(Ran("retry")) <= 1
  /\ \A i \in Ran("fallback") :
       s[1].why = "missingType" =>
         /\ \E j \in Ran("copyEnumTypes") : j < i
         /\ \A j \in Ran("copyEnumTypes") :
              s[j].why = "none" => \E k \in Ran("retry") : j < k /\ k < i

\* C30: the CREATE TABLE of the generic builder uses only types the target
\* has, so it is never rejected for a missing type.
FallbackTypesExist ==
  \A i \in DOMAIN ddl.steps :
    ddl.steps[i].step = "fallback" =>
      /\ ddl.steps[i].types \subseteq BuiltInTypes \cup ddl.enums
      /\ ddl.steps[i].why # "missingType"

\* C31: when the primary key cannot be attached to a table just created, the
\* table stays, no error reaches the caller and no further creation step
\* runs.
PkFailureNonFatal ==
  \A i \in DOMAIN ddl.steps :
    ddl.steps[i].pk = "failed" =>
      /\ i = Len(ddl.steps)
      /\ ddl.steps[i].why = "none"
      /\ ~ddl.threw
      /\ ddl.exists

\* C36: when createTableInBackup throws, a table that was in the target
\* before the call is still there.
FailedCreationKeepsTable ==
  (ddl.service = "backup" /\ ddl.existed /\ ddl.threw) => ddl.exists

\* C32: for a boolean column both routines bind true for the strings true,
\* 1 and t in any letter case, and false for every other string.
BooleanAnyCase ==
  bind.dataType = "boolean" =>
    LET expected == toLowerCase(bind.value) \in {<<"t", "r", "u", "e">>, <<"1">>, <<"t">>}
    IN bind.cdc = expected /\ bind.backup = expected

\* C33: for a JSON column a string that parses is bound as it is, one that
\* does not parse is bound as its JSON string, and both routines bind the
\* same.
JsonValidated ==
  bind.dataType = "jsonb" =>
    /\ bind.cdc = bind.backup
    /\ JSONParses(bind.cdc)
    /\ bind.cdc = IF JSONParses(bind.value) THEN bind.value ELSE JSONStringify(bind.value)

\* C34: no two operations are at their writes to one table of the target at
\* the same time: a sync of a cycle or a force sync about to upsert its
\* rows, and a backup between its drop and its last insert.
SyncsWriting(t) == {c \in Runs : sync[c][t].pc = "rows"}

BackupWriting(t) ==
  /\ bk.pc \in {"drop", "create", "truncate", "insert", "rows"}
  /\ BkTable = t

OneWriterPerTable ==
  \A t \in Tables :
    Cardinality(SyncsWriting(t)) + (IF BackupWriting(t) THEN 1 ELSE 0) <= 1

\* C37: when the stored metrics say healthy, at least nine in ten of the
\* tables of the primary are in the target.
HealthyMeansCovered ==
  healthMetrics.healthStatus = "healthy" =>
    Cardinality({t \in Tables : primary[t].exists /\ target[t].exists}) * 10
      >= Cardinality({t \in Tables : primary[t].exists}) * 9

\* C38: getBackupStatus has released the runner it connected whenever it
\* has ended, thrown or not.
RunnerReleased == status.runner # "connected"

\* C39: in an answer of getBackupStatus the tables counted as backed up and
\* those listed as missing add up to the tables of the primary, the missing
\* ones are the tables of the primary that are not in the target, and there
\* is one entry of statistics for each table counted as backed up.
StatusAddsUp ==
  status.runner = "released" =>
    LET r == status.result
        missing == {r.missing_tables[i] : i \in DOMAIN r.missing_tables}
        counted == {r.table_stats[i].table_name : i \in DOMAIN r.table_stats}
    IN /\ r.total_tables = Cardinality({t \in Tables : primary[t].exists})
       /\ r.backed_up_tables + Len(r.missing_tables) = r.total_tables
       /\ Cardinality(missing) = Len(r.missing_tables)
       /\ missing = {t \in Tables : primary[t].exists /\ ~target[t].exists}
       /\ Len(r.table_stats) = r.backed_up_tables
       /\ Cardinality(counted) = Len(r.table_stats)
       /\ counted = {t \in Tables : primary[t].exists /\ target[t].exists}

\* An answer with two tables backed up and one missing, while the target
\* has a table the primary has not.
StatusOfMixedTables ==
  /\ status.runner = "released"
  /\ status.result.backed_up_tables = 2
  /\ Len(status.result.missing_tables) = 1
  /\ \E t \in Tables : target[t].exists /\ ~primary[t].exists

\* C35: once forceSyncTable has ended, the detection cycles that follow
\* bring every row of the primary table into the target.
ForceSyncThenConverges == (sync[ForceSlot][1].pc = "done") ~> InStep(1)

====
